---- MODULE Spec2Model ----
(***************************************************************************)
(* Model of the simulation core of Cosmic Orb Catcher.                     *)
(*                                                                         *)
(*   gc  : the GameController object (src/js/GameController.js)            *)
(*   im  : the InputMapper object    (src/unnamed/part_000)                *)
(*   input : the record the latest getInput() returned                     *)
(*   loop  : the main application's gameLoop and gesture pipeline          *)
(*   fp  : the FeatureProcessor object (src/js/GameController.js)          *)
(*   cv  : the CVEngine object and its pending detector calls              *)
(*                                                                         *)
(* Real quantities are kept as exact fixed-point integers:                 *)
(*   time            milliseconds                                          *)
(*   x, z, targets   1/1000 game unit                                      *)
(*   y               1/100000 game unit                                    *)
(*   shield energy   1/10000                                               *)
(*   input axes      1/1000                                                *)
(*   multipliers     1/100                                                 *)
(*   camera position 1/3000 of the frame (raw samples are multiples of     *)
(*                   1/100, so every weighted average is an integer)       *)
(*   conditioned axes of the FeatureProcessor   1/2400                     *)
(*   confidence      1/100                                                 *)
(* so that every product the code forms is an integer.  Floating-point     *)
(* rounding is not modelled.                                               *)
(***************************************************************************)
EXTENDS Integers, Sequences, FiniteSets, TLC

VARIABLES gc, im, input, loop, fp, cv, obs

vars == <<gc, im, input, loop, fp, cv, obs>>

(***************************************************************************)
(* Bounds of the exploration.                                              *)
(***************************************************************************)
\* largest value of entityIdCounter explored
MaxSpawned == 5

\* largest value of entityIdCounter explored by SpecLevels
MaxSpawnedLevels == 9

\* largest value of entityIdCounter explored by SpecShield
MaxSpawnedShield == 2

\* largest value of entityIdCounter explored by SpecLoop
MaxSpawnedLoop == 2

\* frame times (ms) handed to update(): a slow frame and a stalled frame (gameLoop
\* passes the time between two animation frames on unchanged)
Dts == {1000, 4000}

\* values of the placement (Math.random() - 0.5) * 8, which lies in [-4, 4)
SpawnXs == {0}
SpawnZs == {0}

\* horizontal axis values of the UnifiedInput handed to update(): centred, and the
\* value that puts the platform at distance 2.1 (= 1.5 + 0.6) from the spawn column
AxisValues == {-420, 0}

(***************************************************************************)
(* Program constants.                                                      *)
(***************************************************************************)
MENU == "MENU"
PLAYING == "PLAYING"
PAUSED == "PAUSED"
GAME_OVER == "GAME_OVER"
GameState == {MENU, PLAYING, PAUSED, GAME_OVER}

ORB == "ORB"
HAZARD == "HAZARD"

NoState == "null"

shieldRechargeRate == 2
shieldDrainRate == 5
ShieldFull == 10000
orbInterval == 1500
hazardInterval == 3000
fallSpeed == 3
spawnHeight == 1500000
catchHeight == 50000
missHeight == -200000
floorHeight == -500000
scoreThresholds == <<500, 1500, 3000, 5000, 8000>>
boundsMin == -5000
boundsMax == 5000
playerSpeed == 15
playerRadius == 1500
orbRadius == 500
hazardRadius == 600
orbPoints == 100
moveEpsilon == 10

(***************************************************************************)
(* Small arithmetic helpers (Math.max / min / abs / sign).                 *)
(***************************************************************************)
Max(a, b) == IF a >= b THEN a ELSE b
Min(a, b) == IF a <= b THEN a ELSE b
Abs(a) == IF a < 0 THEN -a ELSE a
Sign(a) == IF a > 0 THEN 1 ELSE IF a < 0 THEN -1 ELSE 0

(***************************************************************************)
(* Notifications to the presentation adapter.  gc.events is the list of    *)
(* callbacks invoked, in order, by the most recent operation.              *)
(***************************************************************************)
NoStats == [score |-> 0, combo |-> 0, maxCombo |-> 0, orbsCaught |-> 0, level |-> 0]

Ev(kind, id, a, b, flag) ==
    [kind |-> kind, id |-> id, a |-> a, b |-> b, flag |-> flag,
     new |-> NoState, old |-> NoState, stats |-> NoStats]

Notify(g, e) == [g EXCEPT !.events = Append(@, e)]

getStats(g) ==
    [score |-> g.score, combo |-> g.combo, maxCombo |-> g.maxCombo,
     orbsCaught |-> g.orbsCaught, level |-> g.difficulty.level]

(***************************************************************************)
(* GameController                                                          *)
(***************************************************************************)
InitPlayer ==
    [x |-> 0, z |-> 0, targetX |-> 0, targetZ |-> 0,
     shieldActive |-> FALSE, shieldEnergy |-> ShieldFull]

\* constructor followed by init() (which calls reset() before any callback is wired)
GameControllerInit ==
    [state |-> MENU,
     previousState |-> NoState,
     player |-> InitPlayer,
     score |-> 0, combo |-> 1, maxCombo |-> 1, orbsCaught |-> 0,
     entities |-> <<>>,
     entityIdCounter |-> 0,
     spawnConfig |-> [orbTimer |-> 0, hazardTimer |-> 0],
     difficulty |-> [level |-> 1, speedMultiplier |-> 100, spawnMultiplier |-> 100],
     events |-> <<>>]

setState(g, newState) ==
    LET g1 == [g EXCEPT !.state = newState]
    IN  Notify(g1, [Ev("stateChange", 0, 0, 0, FALSE) EXCEPT
                        !.new = newState, !.old = g.state, !.stats = getStats(g1)])

\* reset() that forgets the spawn timers
reset_keepsTimers(g) ==
    LET g1 == [g EXCEPT !.player = InitPlayer,
                        !.score = 0, !.combo = 1, !.maxCombo = 1, !.orbsCaught = 0,
                        !.difficulty = [level |-> 1, speedMultiplier |-> 100,
                                        spawnMultiplier |-> 100]]
        g2 == Notify(g1, Ev("score", 0, 0, 0, FALSE))
        g3 == Notify(g2, Ev("combo", 0, 1, 0, FALSE))
    IN  Notify(g3, Ev("shield", 0, ShieldFull, 0, FALSE))

\* reset() that also rewinds entityIdCounter
reset_rewindsIds(g) ==
    LET g1 == [g EXCEPT !.player = InitPlayer,
                        !.score = 0, !.combo = 1, !.maxCombo = 1, !.orbsCaught = 0,
                        !.spawnConfig = [orbTimer |-> 0, hazardTimer |-> 0],
                        !.entityIdCounter = 0,
                        !.difficulty = [level |-> 1, speedMultiplier |-> 100,
                                        spawnMultiplier |-> 100]]
        g2 == Notify(g1, Ev("score", 0, 0, 0, FALSE))
        g3 == Notify(g2, Ev("combo", 0, 1, 0, FALSE))
    IN  Notify(g3, Ev("shield", 0, ShieldFull, 0, FALSE))

reset(g) ==
    LET g1 == [g EXCEPT !.player = InitPlayer,
                        !.score = 0, !.combo = 1, !.maxCombo = 1, !.orbsCaught = 0,
                        !.spawnConfig = [orbTimer |-> 0, hazardTimer |-> 0],
                        !.difficulty = [level |-> 1, speedMultiplier |-> 100,
                                        spawnMultiplier |-> 100]]
        g2 == Notify(g1, Ev("score", 0, 0, 0, FALSE))
        g3 == Notify(g2, Ev("combo", 0, 1, 0, FALSE))
    IN  Notify(g3, Ev("shield", 0, ShieldFull, 0, FALSE))

startGame(g) == setState(reset(g), PLAYING)

pause(g) ==
    IF g.state = PLAYING
    THEN setState([g EXCEPT !.previousState = g.state], PAUSED)
    ELSE g

resume(g) ==
    IF g.state = PAUSED
    THEN setState(g, IF g.previousState # NoState THEN g.previousState ELSE PLAYING)
    ELSE g

RECURSIVE NotifyRemoveAll(_, _, _)
NotifyRemoveAll(g, ents, i) ==
    IF i > Len(ents) THEN g
    ELSE NotifyRemoveAll(Notify(g, Ev("remove", ents[i].id, 0, 0, FALSE)), ents, i + 1)

\* restart() that empties the live set without the removal notifications
restart_silent(g) == startGame([g EXCEPT !.entities = <<>>])

restart(g) ==
    LET g1 == NotifyRemoveAll(g, g.entities, 1)
    IN  startGame([g1 EXCEPT !.entities = <<>>])

\* gameOver() that sends the player back to the menu
gameOver_toMenu(g) == setState(g, MENU)

\* gameOver() that announces the end of the session twice
gameOver_twice(g) == setState(setState(g, GAME_OVER), GAME_OVER)

gameOver(g) == setState(g, GAME_OVER)

handleMenuInput(g, in) ==
    CASE g.state = MENU ->
            IF in.start \/ in.actionPrimary THEN startGame(g) ELSE g
      [] g.state = PAUSED ->
            LET g1 == IF in.pause THEN resume(g) ELSE g
            IN  IF in.restart THEN restart(g1) ELSE g1
      [] g.state = GAME_OVER ->
            IF in.restart \/ in.start THEN restart(g) ELSE g
      [] OTHER -> g

\* the target taken from the axis as it comes, without Math.max / Math.min
Clamp_none(v) == v

Clamp(v) == Max(boundsMin, Min(boundsMax, v))

updatePlayer(g, dt, in) ==
    LET targetX == Clamp(in.horizontal * 5)
        targetZ == Clamp(in.vertical * 5)
        dx == targetX - g.player.x
        dz == targetZ - g.player.z
        moveSpeed == playerSpeed * dt
        nx == IF Abs(dx) > moveEpsilon
              THEN g.player.x + Sign(dx) * Min(Abs(dx), moveSpeed)
              ELSE g.player.x
        nz == IF Abs(dz) > moveEpsilon
              THEN g.player.z + Sign(dz) * Min(Abs(dz), moveSpeed)
              ELSE g.player.z
        g1 == [g EXCEPT !.player.targetX = targetX, !.player.targetZ = targetZ,
                        !.player.x = nx, !.player.z = nz]
    IN  Notify(g1, Ev("playerMove", 0, nx, nz, FALSE))

\* updateShield() without Math.max(0, .) and Math.min(1, .)
updateShield_noClamp(g, dt, actionPressed) ==
    LET wasActive == g.player.shieldActive
        drained == g.player.shieldEnergy - shieldDrainRate * dt
        g1 == IF actionPressed /\ g.player.shieldEnergy > 0
              THEN [g EXCEPT !.player.shieldEnergy = drained,
                             !.player.shieldActive = ~(drained <= 0)]
              ELSE [g EXCEPT !.player.shieldActive = FALSE,
                             !.player.shieldEnergy = @ + shieldRechargeRate * dt]
    IN  IF wasActive # g1.player.shieldActive \/ actionPressed
        THEN Notify(g1, Ev("shield", 0, g1.player.shieldEnergy, 0, g1.player.shieldActive))
        ELSE g1

\* updateShield() that recharges in the update that drains the shield to zero
updateShield_rechargeAtZero(g, dt, actionPressed) ==
    LET wasActive == g.player.shieldActive
        drained == Max(0, g.player.shieldEnergy - shieldDrainRate * dt)
        g1 == IF actionPressed /\ g.player.shieldEnergy > 0 /\ drained > 0
              THEN [g EXCEPT !.player.shieldEnergy = drained,
                             !.player.shieldActive = TRUE]
              ELSE [g EXCEPT !.player.shieldActive = FALSE,
                             !.player.shieldEnergy =
                                 Min(ShieldFull, @ + shieldRechargeRate * dt)]
    IN  IF wasActive # g1.player.shieldActive \/ actionPressed
        THEN Notify(g1, Ev("shield", 0, g1.player.shieldEnergy, 0, g1.player.shieldActive))
        ELSE g1

updateShield(g, dt, actionPressed) ==
    LET wasActive == g.player.shieldActive
        drained == Max(0, g.player.shieldEnergy - shieldDrainRate * dt)
        g1 == IF actionPressed /\ g.player.shieldEnergy > 0
              THEN [g EXCEPT !.player.shieldEnergy = drained,
                             !.player.shieldActive = ~(drained <= 0)]
              ELSE [g EXCEPT !.player.shieldActive = FALSE,
                             !.player.shieldEnergy =
                                 Min(ShieldFull, @ + shieldRechargeRate * dt)]
    IN  IF wasActive # g1.player.shieldActive \/ actionPressed
        THEN Notify(g1, Ev("shield", 0, g1.player.shieldEnergy, 0, g1.player.shieldActive))
        ELSE g1

\* breakCombo() that also takes the base points of an orb off the score
breakCombo_penalty(g) ==
    Notify([g EXCEPT !.combo = 1, !.score = Max(0, @ - orbPoints)], Ev("combo", 0, 1, 0, FALSE))

breakCombo(g) ==
    Notify([g EXCEPT !.combo = 1], Ev("combo", 0, 1, 0, FALSE))

\* one iteration of the for-loop of updateEntities
fallEntity(e, dy) ==
    LET y1 == e.y - dy
        e1 == [e EXCEPT !.y = y1]
        e2 == IF ~e1.processed /\ y1 <= catchHeight
              THEN [e1 EXCEPT !.inCatchZone = TRUE] ELSE e1
    IN  IF ~e2.processed /\ y1 <= missHeight
        THEN [e2 EXCEPT !.missed = TRUE, !.processed = TRUE]
        ELSE e2

\* the filter callback breaking the combo for every missed entity, hazards included
RECURSIVE filterEntities_anyMissed(_, _, _)
filterEntities_anyMissed(g, ents, i) ==
    IF i > Len(ents) THEN g
    ELSE LET e == ents[i]
         IN  IF e.y < floorHeight \/ e.processed
             THEN LET g1 == IF e.missed THEN breakCombo(g) ELSE g
                  IN  filterEntities_anyMissed(
                          Notify(g1, Ev("remove", e.id, 0, 0, FALSE)), ents, i + 1)
             ELSE filterEntities_anyMissed(
                          [g EXCEPT !.entities = Append(@, e)], ents, i + 1)

\* the filter callback of updateEntities, applied to ents[i..] in order
RECURSIVE filterEntities(_, _, _)
filterEntities(g, ents, i) ==
    IF i > Len(ents) THEN g
    ELSE LET e == ents[i]
         IN  IF e.y < floorHeight \/ e.processed
             THEN LET g1 == IF e.missed /\ e.type = ORB THEN breakCombo(g) ELSE g
                  IN  filterEntities(Notify(g1, Ev("remove", e.id, 0, 0, FALSE)), ents, i + 1)
             ELSE filterEntities([g EXCEPT !.entities = Append(@, e)], ents, i + 1)

updateEntities(g, dt) ==
    LET dy == fallSpeed * g.difficulty.speedMultiplier * dt
        moved == [i \in 1..Len(g.entities) |-> fallEntity(g.entities[i], dy)]
    IN  filterEntities([g EXCEPT !.entities = <<>>], moved, 1)

spawnEntity(g, type, x, z) ==
    LET id == g.entityIdCounter + 1
        entity == [id |-> id, type |-> type, x |-> x, y |-> spawnHeight, z |-> z,
                   processed |-> FALSE, missed |-> FALSE, inCatchZone |-> FALSE]
        g1 == [g EXCEPT !.entityIdCounter = id, !.entities = Append(@, entity)]
    IN  Notify(g1, Ev("spawn", id, x, z, FALSE))

spawnOrb(g, x, z) == spawnEntity(g, ORB, x, z)

spawnHazard(g, x, z) == spawnEntity(g, HAZARD, x, z)

\* the spawn conditions of updateSpawning, on the timers before dt is added
orbDue(g, dt) ==
    (g.spawnConfig.orbTimer + dt) * g.difficulty.spawnMultiplier >= orbInterval * 100

hazardDue(g, dt) ==
    (g.spawnConfig.hazardTimer + dt) * g.difficulty.spawnMultiplier >= hazardInterval * 100

\* updateSpawning() that carries the time past the interval over to the next spawn
updateSpawning_carry(g, dt, rnd) ==
    LET g1 == IF orbDue(g, dt)
              THEN [spawnOrb(g, rnd[1], rnd[2]) EXCEPT
                       !.spawnConfig.orbTimer =
                           @ + dt - (orbInterval * 100) \div g.difficulty.spawnMultiplier]
              ELSE [g EXCEPT !.spawnConfig.orbTimer = @ + dt]
    IN  IF hazardDue(g1, dt)
        THEN [spawnHazard(g1, rnd[3], rnd[4]) EXCEPT
                 !.spawnConfig.hazardTimer =
                     @ + dt - (hazardInterval * 100) \div g.difficulty.spawnMultiplier]
        ELSE [g1 EXCEPT !.spawnConfig.hazardTimer = @ + dt]

\* rnd = <<orb x, orb z, hazard x, hazard z>>, the placements Math.random() yields
updateSpawning(g, dt, rnd) ==
    LET g1 == IF orbDue(g, dt)
              THEN [spawnOrb(g, rnd[1], rnd[2]) EXCEPT !.spawnConfig.orbTimer = 0]
              ELSE [g EXCEPT !.spawnConfig.orbTimer = @ + dt]
    IN  IF hazardDue(g1, dt)
        THEN [spawnHazard(g1, rnd[3], rnd[4]) EXCEPT !.spawnConfig.hazardTimer = 0]
        ELSE [g1 EXCEPT !.spawnConfig.hazardTimer = @ + dt]

\* catchOrb() that awards the base points whatever the combo
catchOrb_flatPoints(g, orb) ==
    LET points == orbPoints
        combo1 == g.combo + 1
        g1 == [g EXCEPT !.score = @ + points,
                        !.orbsCaught = @ + 1,
                        !.combo = combo1,
                        !.maxCombo = IF combo1 > @ THEN combo1 ELSE @]
        g2 == Notify(g1, Ev("orbCatch", orb.id, points, 0, FALSE))
        g3 == Notify(g2, Ev("score", 0, g1.score, 0, FALSE))
    IN  Notify(g3, Ev("combo", 0, g1.combo, 0, FALSE))

\* catchOrb() without the update of maxCombo
catchOrb_keepsMax(g, orb) ==
    LET points == orbPoints * g.combo
        g1 == [g EXCEPT !.score = @ + points,
                        !.orbsCaught = @ + 1,
                        !.combo = @ + 1]
        g2 == Notify(g1, Ev("orbCatch", orb.id, points, 0, FALSE))
        g3 == Notify(g2, Ev("score", 0, g1.score, 0, FALSE))
    IN  Notify(g3, Ev("combo", 0, g1.combo, 0, FALSE))

catchOrb(g, orb) ==
    LET points == orbPoints * g.combo
        combo1 == g.combo + 1
        g1 == [g EXCEPT !.score = @ + points,
                        !.orbsCaught = @ + 1,
                        !.combo = combo1,
                        !.maxCombo = IF combo1 > @ THEN combo1 ELSE @]
        g2 == Notify(g1, Ev("orbCatch", orb.id, points, 0, FALSE))
        g3 == Notify(g2, Ev("score", 0, g1.score, 0, FALSE))
    IN  Notify(g3, Ev("combo", 0, g1.combo, 0, FALSE))

\* hitHazard() that notifies the hit and lets the session go on
hitHazard_noGameOver(g, hazard) ==
    Notify(g, Ev("hazardHit", hazard.id, 0, 0, g.player.shieldActive))

\* hitHazard() that takes remaining energy for an active shield
hitHazard_energyShield(g, hazard) ==
    IF g.player.shieldEnergy > 0
    THEN Notify(g, Ev("hazardHit", hazard.id, 0, 0, TRUE))
    ELSE gameOver(Notify(g, Ev("hazardHit", hazard.id, 0, 0, FALSE)))

hitHazard(g, hazard) ==
    IF g.player.shieldActive
    THEN Notify(g, Ev("hazardHit", hazard.id, 0, 0, TRUE))
    ELSE gameOver(Notify(g, Ev("hazardHit", hazard.id, 0, 0, FALSE)))

radiusOf(e) == IF e.type = ORB THEN orbRadius ELSE hazardRadius

\* distance < playerRadius + entity.radius, compared on the squares
Overlaps(g, e) ==
    LET dx == e.x - g.player.x
        dz == e.z - g.player.z
        r == playerRadius + radiusOf(e)
    IN  dx * dx + dz * dz < r * r

\* the for-loop of checkCollisions without entity.processed = true
RECURSIVE checkCollisionsFrom_unmarked(_, _)
checkCollisionsFrom_unmarked(g, i) ==
    IF i > Len(g.entities) THEN g
    ELSE LET e == g.entities[i]
         IN  IF e.processed \/ ~e.inCatchZone THEN checkCollisionsFrom_unmarked(g, i + 1)
             ELSE IF Overlaps(g, e)
                  THEN checkCollisionsFrom_unmarked(
                           IF e.type = ORB THEN catchOrb(g, e) ELSE hitHazard(g, e), i + 1)
                  ELSE checkCollisionsFrom_unmarked(g, i + 1)

\* the for-loop of checkCollisions leaving at its first collision
RECURSIVE checkCollisionsFrom_firstOnly(_, _)
checkCollisionsFrom_firstOnly(g, i) ==
    IF i > Len(g.entities) THEN g
    ELSE LET e == g.entities[i]
         IN  IF e.processed \/ ~e.inCatchZone THEN checkCollisionsFrom_firstOnly(g, i + 1)
             ELSE IF Overlaps(g, e)
                  THEN LET g1 == [g EXCEPT !.entities[i].processed = TRUE]
                       IN  IF e.type = ORB THEN catchOrb(g1, g1.entities[i])
                           ELSE hitHazard(g1, g1.entities[i])
                  ELSE checkCollisionsFrom_firstOnly(g, i + 1)

RECURSIVE checkCollisionsFrom(_, _)
checkCollisionsFrom(g, i) ==
    IF i > Len(g.entities) THEN g
    ELSE LET e == g.entities[i]
         IN  IF e.processed \/ ~e.inCatchZone THEN checkCollisionsFrom(g, i + 1)
             ELSE IF Overlaps(g, e)
                  THEN LET g1 == [g EXCEPT !.entities[i].processed = TRUE]
                           g2 == IF e.type = ORB THEN catchOrb(g1, g1.entities[i])
                                 ELSE hitHazard(g1, g1.entities[i])
                       IN  checkCollisionsFrom(g2, i + 1)
                  ELSE checkCollisionsFrom(g, i + 1)

checkCollisions(g) == checkCollisionsFrom(g, 1)

RECURSIVE levelFor(_, _, _)
levelFor(score, i, newLevel) ==
    IF i > Len(scoreThresholds) THEN newLevel
    ELSE levelFor(score, i + 1, IF score >= scoreThresholds[i] THEN i + 1 ELSE newLevel)

\* updateDifficulty() that moves the level and leaves the multipliers alone
updateDifficulty_levelOnly(g) ==
    LET newLevel == levelFor(g.score, 1, 1)
    IN  [g EXCEPT !.difficulty.level = newLevel]

updateDifficulty(g) ==
    LET newLevel == levelFor(g.score, 1, 1)
    IN  IF newLevel # g.difficulty.level
        THEN [g EXCEPT !.difficulty = [level |-> newLevel,
                                       speedMultiplier |-> 100 + (newLevel - 1) * 15,
                                       spawnMultiplier |-> 100 + (newLevel - 1) * 10]]
        ELSE g

\* the part of update() that runs in PLAYING when neither pause nor restart is asked
updatePlaying(g, dt, in, rnd) ==
    updateDifficulty(
      checkCollisions(
        updateSpawning(
          updateEntities(
            updateShield(
              updatePlayer(g, dt, in),
              dt, in.actionPrimary),
            dt),
          dt, rnd)))

\* update() without the return after handleMenuInput
update_noEarlyReturn(g, dt, in, rnd) ==
    IF g.state # PLAYING THEN updatePlaying(handleMenuInput(g, in), dt, in, rnd)
    ELSE IF in.pause THEN pause(g)
    ELSE IF in.restart THEN restart(g)
    ELSE updatePlaying(g, dt, in, rnd)

\* update() that looks at restart before pause
update_restartFirst(g, dt, in, rnd) ==
    IF g.state # PLAYING THEN handleMenuInput(g, in)
    ELSE IF in.restart THEN restart(g)
    ELSE IF in.pause THEN pause(g)
    ELSE updatePlaying(g, dt, in, rnd)

update(g, dt, in, rnd) ==
    IF g.state # PLAYING THEN handleMenuInput(g, in)
    ELSE IF in.pause THEN pause(g)
    ELSE IF in.restart THEN restart(g)
    ELSE updatePlaying(g, dt, in, rnd)

(***************************************************************************)
(* InputMapper                                                             *)
(***************************************************************************)
CV == "cv"
KEYBOARD == "keyboard"
MOUSE == "mouse"

\* window.innerWidth / innerHeight, in pixels
innerWidth == 1000
innerHeight == 1000

PauseKeys == {"Escape", "KeyP"}
RestartKeys == {"KeyR"}
StartKeys == {"Enter", "Space"}

\* m.keys is the set of codes c with keys[c] === true
InputMapperInit ==
    [currentInput |-> [horizontal |-> 0, vertical |-> 0, actionPrimary |-> FALSE,
                       pause |-> FALSE, restart |-> FALSE, start |-> FALSE,
                       source |-> KEYBOARD],
     cvEnabled |-> FALSE,
     keys |-> {},
     mouse |-> [x |-> 0, y |-> 0, clicked |-> FALSE],
     commandCooldowns |-> [pause |-> FALSE, restart |-> FALSE, start |-> FALSE]]

enableCV(m) == [m EXCEPT !.cvEnabled = TRUE]

disableCV(m) == [m EXCEPT !.cvEnabled = FALSE]

\* data = [normalizedX, normalizedY, gesture]
processCVInput(m, data) ==
    IF ~m.cvEnabled THEN m
    ELSE [m EXCEPT !.currentInput.horizontal = data.normalizedX,
                   !.currentInput.vertical = data.normalizedY,
                   !.currentInput.actionPrimary = data.gesture \in {"pinch", "fist"},
                   !.currentInput.source = CV]

\* handleKeyDown that sets the command on every key-down event, auto-repeat included
handleKeyDown_noLatch(m, code) ==
    LET m1 == [m EXCEPT !.keys = @ \cup {code}]
        m2 == IF code \in PauseKeys
              THEN [m1 EXCEPT !.currentInput.pause = TRUE, !.commandCooldowns.pause = TRUE]
              ELSE m1
        m3 == IF code \in RestartKeys
              THEN [m2 EXCEPT !.currentInput.restart = TRUE,
                              !.commandCooldowns.restart = TRUE]
              ELSE m2
    IN  IF code \in StartKeys /\ ~m3.currentInput.actionPrimary
        THEN [m3 EXCEPT !.currentInput.start = TRUE, !.commandCooldowns.start = TRUE]
        ELSE m3

handleKeyDown(m, code) ==
    LET m1 == [m EXCEPT !.keys = @ \cup {code}]
        m2 == IF code \in PauseKeys /\ ~m1.commandCooldowns.pause
              THEN [m1 EXCEPT !.currentInput.pause = TRUE, !.commandCooldowns.pause = TRUE]
              ELSE m1
        m3 == IF code \in RestartKeys /\ ~m2.commandCooldowns.restart
              THEN [m2 EXCEPT !.currentInput.restart = TRUE,
                              !.commandCooldowns.restart = TRUE]
              ELSE m2
    IN  IF code \in StartKeys /\ ~m3.commandCooldowns.start
                              /\ ~m3.currentInput.actionPrimary
        THEN [m3 EXCEPT !.currentInput.start = TRUE, !.commandCooldowns.start = TRUE]
        ELSE m3

handleKeyUp(m, code) ==
    LET m1 == [m EXCEPT !.keys = @ \ {code}]
        m2 == IF code \in PauseKeys
              THEN [m1 EXCEPT !.commandCooldowns.pause = FALSE,
                              !.currentInput.pause = FALSE]
              ELSE m1
        m3 == IF code \in RestartKeys
              THEN [m2 EXCEPT !.commandCooldowns.restart = FALSE,
                              !.currentInput.restart = FALSE]
              ELSE m2
    IN  IF code \in StartKeys
        THEN [m3 EXCEPT !.commandCooldowns.start = FALSE, !.currentInput.start = FALSE]
        ELSE m3

handleMouseMove(m, x, y) == [m EXCEPT !.mouse.x = x, !.mouse.y = y]

handleMouseDown(m, button) ==
    IF button = 0 THEN [m EXCEPT !.mouse.clicked = TRUE] ELSE m

handleMouseUp(m, button) ==
    IF button = 0 THEN [m EXCEPT !.mouse.clicked = FALSE] ELSE m

Held(m, codes) == (m.keys \cap codes) # {}

\* (pixel / extent) * 2 - 1, in 1/1000
MouseAxis(pixel, extent) == (pixel * 2000) \div extent - 1000

\* updateFallbackInput() in which a left or up key outvotes the opposite key
updateFallbackInput_noCancel(m) ==
    IF m.cvEnabled THEN m
    ELSE LET horizontal == IF Held(m, {"ArrowLeft", "KeyA"}) THEN -1000
                           ELSE IF Held(m, {"ArrowRight", "KeyD"}) THEN 1000 ELSE 0
             vertical == IF Held(m, {"ArrowUp", "KeyW"}) THEN -1000
                         ELSE IF Held(m, {"ArrowDown", "KeyS"}) THEN 1000 ELSE 0
             usingKeyboard == horizontal # 0 \/ vertical # 0
             m1 == IF usingKeyboard
                   THEN [m EXCEPT !.currentInput.horizontal = horizontal,
                                  !.currentInput.vertical = vertical,
                                  !.currentInput.source = KEYBOARD]
                   ELSE [m EXCEPT !.currentInput.horizontal =
                                      MouseAxis(m.mouse.x, innerWidth),
                                  !.currentInput.vertical =
                                      MouseAxis(m.mouse.y, innerHeight),
                                  !.currentInput.source = MOUSE]
         IN  [m1 EXCEPT !.currentInput.actionPrimary =
                            ("Space" \in m.keys) \/ m.mouse.clicked]

updateFallbackInput(m) ==
    IF m.cvEnabled THEN m
    ELSE LET horizontal == (IF Held(m, {"ArrowLeft", "KeyA"}) THEN -1000 ELSE 0)
                           + (IF Held(m, {"ArrowRight", "KeyD"}) THEN 1000 ELSE 0)
             vertical == (IF Held(m, {"ArrowUp", "KeyW"}) THEN -1000 ELSE 0)
                         + (IF Held(m, {"ArrowDown", "KeyS"}) THEN 1000 ELSE 0)
             usingKeyboard == horizontal # 0 \/ vertical # 0
             m1 == IF usingKeyboard
                   THEN [m EXCEPT !.currentInput.horizontal = horizontal,
                                  !.currentInput.vertical = vertical,
                                  !.currentInput.source = KEYBOARD]
                   ELSE [m EXCEPT !.currentInput.horizontal =
                                      MouseAxis(m.mouse.x, innerWidth),
                                  !.currentInput.vertical =
                                      MouseAxis(m.mouse.y, innerHeight),
                                  !.currentInput.source = MOUSE]
         IN  [m1 EXCEPT !.currentInput.actionPrimary =
                            ("Space" \in m.keys) \/ m.mouse.clicked]

\* getInput() that returns currentInput without evaluating the fallback
getInputResult_noFallback(m) == m.currentInput

\* getInput(): the record it returns ...
getInputResult(m) ==
    (IF ~m.cvEnabled THEN updateFallbackInput(m) ELSE m).currentInput

\* ... and the mapper it leaves behind, one-shot commands cleared
getInput(m) ==
    [(IF ~m.cvEnabled THEN updateFallbackInput(m) ELSE m) EXCEPT
        !.currentInput.pause = FALSE,
        !.currentInput.restart = FALSE,
        !.currentInput.start = FALSE]

(***************************************************************************)
(* FeatureProcessor                                                        *)
(***************************************************************************)
historySize == 5
gestureBufferSize == 3

\* this.deadZone = 0.02
deadZone == 60

\* gestureBufferSize * 0.6, in tenths
hysteresisTenths == 6

\* inputRange: 0.1 and 0.9
inputMin == 300
inputMax == 2700

\* one conditioned axis unit
AxisOne == 2400

\* variance < 0.001
stableVariance == 9000

Centre == [x |-> 1500, y |-> 1500]

FeatureProcessorInit ==
    [positionHistory |-> <<>>,
     gestureBuffer |-> <<>>,
     currentGesture |-> "none",
     lastPosition |-> Centre,
     processedData |-> [normalizedX |-> 0, normalizedY |-> 0, gesture |-> "none",
                        isStable |-> FALSE, confidence |-> 0, rawPosition |-> Centre]]

\* a buffer that drops the newest entries beyond its size and keeps the oldest
Trim_keepOldest(q, size) == IF Len(q) > size THEN SubSeq(q, 1, size) ELSE q

\* q.shift() while q.length > size
Trim(q, size) == IF Len(q) > size THEN SubSeq(q, Len(q) - size + 1, Len(q)) ELSE q

Shift(q) == IF Len(q) > 0 THEN Tail(q) ELSE q

RECURSIVE WeightedSum(_, _, _)
\* sum over i of q[i][axis] * i
WeightedSum(q, axis, i) ==
    IF i > Len(q) THEN 0 ELSE q[i][axis] * i + WeightedSum(q, axis, i + 1)

RECURSIVE AxisSum(_, _, _)
AxisSum(q, axis, i) == IF i > Len(q) THEN 0 ELSE q[i][axis] + AxisSum(q, axis, i + 1)

\* weights (i + 1) / length; the quotient avg / totalWeight is sum(x_i * i) / (n(n+1)/2)
smoothPosition(f, position) ==
    LET history == Trim(Append(f.positionHistory, position), historySize)
        n == Len(history)
        total == (n * (n + 1)) \div 2
    IN  [f |-> [f EXCEPT !.positionHistory = history],
         position |-> [x |-> WeightedSum(history, "x", 1) \div total,
                       y |-> WeightedSum(history, "y", 1) \div total]]

applyDeadZone(f, position) ==
    LET dx == position.x - f.lastPosition.x
        dy == position.y - f.lastPosition.y
    IN  IF dx * dx + dy * dy < deadZone * deadZone
        THEN [f |-> f, position |-> f.lastPosition]
        ELSE [f |-> [f EXCEPT !.lastPosition = position], position |-> position]

\* normalize() without the clamp to [min, max]
normalize_noClamp(value, min, max, mirror) ==
    LET normalized == ((value - min) * AxisOne) \div (max - min)
    IN  (IF mirror THEN AxisOne - normalized ELSE normalized) * 2 - AxisOne

normalize(value, min, max, mirror) ==
    LET clamped == Max(min, Min(max, value))
        normalized == ((clamped - min) * AxisOne) \div (max - min)
    IN  (IF mirror THEN AxisOne - normalized ELSE normalized) * 2 - AxisOne

Count(q, g) == Cardinality({i \in 1..Len(q) : q[i] = g})

RECURSIVE Dominant(_, _, _, _)
\* the loop over Object.entries(counts): tags in order of first occurrence, a tag
\* replacing the dominant one when its count is strictly greater
Dominant(q, i, maxCount, dominantGesture) ==
    IF i > Len(q) THEN [maxCount |-> maxCount, dominantGesture |-> dominantGesture]
    ELSE IF (\A j \in 1..(i - 1) : q[j] # q[i]) /\ Count(q, q[i]) > maxCount
         THEN Dominant(q, i + 1, Count(q, q[i]), q[i])
         ELSE Dominant(q, i + 1, maxCount, dominantGesture)

\* Math.ceil(gestureBufferSize * 0.6)
HysteresisCount == (gestureBufferSize * hysteresisTenths + 9) \div 10

\* processGesture() that follows the most frequent tag whatever its count
processGesture_noMajority(f, gesture) ==
    LET buffer == Trim(Append(f.gestureBuffer, gesture), gestureBufferSize)
        d == Dominant(buffer, 1, 0, f.currentGesture)
    IN  [f EXCEPT !.gestureBuffer = buffer, !.currentGesture = d.dominantGesture]

processGesture(f, gesture) ==
    LET buffer == Trim(Append(f.gestureBuffer, gesture), gestureBufferSize)
        d == Dominant(buffer, 1, 0, f.currentGesture)
    IN  [f EXCEPT !.gestureBuffer = buffer,
                  !.currentGesture = IF d.maxCount >= HysteresisCount
                                     THEN d.dominantGesture ELSE @]

\* variance = sum((p - avg)^2) / n < 0.001, with avg = sum / n, cleared of fractions
isPositionStable(f) ==
    LET q == f.positionHistory
        n == Len(q)
        sumX == AxisSum(q, "x", 1)
        sumY == AxisSum(q, "y", 1)
        dev == [i \in 1..n |-> [x |-> (n * q[i].x - sumX) * (n * q[i].x - sumX),
                                y |-> (n * q[i].y - sumY) * (n * q[i].y - sumY)]]
    IN  IF n < 3 THEN FALSE
        ELSE AxisSum(dev, "x", 1) + AxisSum(dev, "y", 1) < stableVariance * n * n * n

\* decay() that keeps the stabilized gesture after the buffer has run empty
decay_keepsGesture(f) ==
    LET f1 == [f EXCEPT !.gestureBuffer = Shift(@)]
        f3 == [f1 EXCEPT !.positionHistory = Shift(@)]
    IN  [f3 EXCEPT !.processedData.gesture = f3.currentGesture,
                   !.processedData.confidence = 0,
                   !.processedData.isStable = FALSE]

decay(f) ==
    LET f1 == [f EXCEPT !.gestureBuffer = Shift(@)]
        f2 == IF Len(f1.gestureBuffer) = 0 THEN [f1 EXCEPT !.currentGesture = "none"] ELSE f1
        f3 == [f2 EXCEPT !.positionHistory = Shift(@)]
    IN  [f3 EXCEPT !.processedData.gesture = f3.currentGesture,
                   !.processedData.confidence = 0,
                   !.processedData.isStable = FALSE]

\* the FeatureProcessor after process(cvResults); its result is processedData
process(f, cvResults) ==
    IF ~cvResults.detected THEN decay(f)
    ELSE LET s == smoothPosition(f, cvResults.position)
             d == applyDeadZone(s.f, s.position)
             f3 == processGesture(d.f, cvResults.gesture)
         IN  [f3 EXCEPT !.processedData =
                 [normalizedX |-> normalize(d.position.x, inputMin, inputMax, FALSE),
                  normalizedY |-> normalize(d.position.y, inputMin, inputMax, FALSE),
                  gesture |-> f3.currentGesture,
                  isStable |-> isPositionStable(f3),
                  confidence |-> cvResults.confidence,
                  rawPosition |-> cvResults.position]]

(***************************************************************************)
(* CVEngine: the hand detector's front end.  `pending` counts the calls of *)
(* hands.send() whose promise has not settled; `answered` tells whether    *)
(* the detector has delivered the results of the pending send to           *)
(* processResults.  Landmarks are not modelled.                            *)
(***************************************************************************)
\* the JavaScript null, as a value of lastResults and of processFrame
NullResults ==
    [detected |-> FALSE, gesture |-> "null", confidence |-> 0, position |-> Centre]

CVEngineInit ==
    [isInitialized |-> FALSE,
     isProcessing |-> FALSE,
     lastResults |-> NullResults,
     pending |-> 0,
     answered |-> FALSE]

\* init() once hands.initialize() has resolved
initCV(c) == [c EXCEPT !.isInitialized = TRUE]

processFrameSends_noGuard(c, videoOk) == videoOk /\ c.isInitialized

\* processFrame(videoElement) gets as far as hands.send(); videoOk tells
\* whether the element exists, has data, is playing and has a width
processFrameSends(c, videoOk) == videoOk /\ c.isInitialized /\ ~c.isProcessing

\* the CVEngine after the synchronous part of processFrame(videoElement)
processFrameCall(c, videoOk) ==
    IF processFrameSends(c, videoOk)
    THEN [c EXCEPT !.isProcessing = TRUE, !.pending = @ + 1, !.answered = FALSE]
    ELSE c

\* what processFrame(videoElement) returns when it does not send
processFrameEarly(c, videoOk) ==
    IF ~videoOk \/ ~c.isInitialized THEN NullResults ELSE c.lastResults

\* the CVEngine after the await of hands.send(), resolved or caught
processFrameResume(c) == [c EXCEPT !.isProcessing = FALSE, !.pending = @ - 1]

\* processResults(results), the callback handed to hands.onResults
processResults(c, results) == [c EXCEPT !.lastResults = results, !.answered = TRUE]

\* CVEngine.dispose(); a pending send is left to settle
disposeCV(c) == [c EXCEPT !.isInitialized = FALSE, !.lastResults = NullResults]

(***************************************************************************)
(* Observers.  obs holds history that the program itself does not keep:    *)
(*   streak    orbs caught since the last missed orb or session reset      *)
(*   lastId    the largest identifier any entity was ever given            *)
(*   peak      the largest combo notified since the last reset()           *)
(*   overs     the transitions to GAME_OVER notified since the last reset() *)
(*   live      the identifiers announced as spawned and not as removed      *)
(*   done      the identifiers resolved by a collision and not removed yet  *)
(*   signal    the latest conditioned signal the mapper took in while the  *)
(*             gesture source was enabled                                  *)
(*   late      1 once a signal arrived while the source was disabled,      *)
(*             2 once poll() has been called after that; 0 on enable       *)
(*   tick      parity of the number of getInput() calls (SpecFusion)       *)
(*   raw       the detector result of the latest process() call            *)
(*   ret       what the latest processFrame() call that returned gave back *)
(*   call      parity of the number of processFrame() calls                *)
(*   video     whether the latest processFrame() call had a usable video   *)
(*   busy      whether the latest processFrame() call found a send pending *)
(*   threw     whether a hands.send() has thrown                           *)
(*   beat      parity of the number of process() calls                     *)
(*   hold[c]   for command c, the hold of a key of c that began with no    *)
(*             other key of c down (and, for start, with the primary       *)
(*             action off): 0 none, 1 pressed and not polled yet,          *)
(*             2 polled once, 3 polled more than once                      *)
(*   press[c]  the latest released->pressed transition of a key of c:      *)
(*             0 none or already answered, 1 not polled yet, 2 the most    *)
(*             recent poll() was the first after it                        *)
(***************************************************************************)
Range(q) == {q[i] : i \in 1..Len(q)}

EventsOf(g, kind) == SelectSeq(g.events, LAMBDA e : e.kind = kind)

HasEvent(g, kind) == \E i \in 1..Len(g.events) : g.events[i].kind = kind

EntityIds(g) == {g.entities[i].id : i \in 1..Len(g.entities)}

\* the operation ran the simulation part of update() (updatePlayer always notifies)
SimStepDone(g) == HasEvent(g, "playerMove")

\* the operation went through reset() + setState(PLAYING)
ResetDone(g) ==
    \E i \in 1..Len(g.events) :
        /\ g.events[i].kind = "stateChange"
        /\ g.events[i].new = PLAYING
        /\ i > 3
        /\ g.events[i-1].kind = "shield"
        /\ g.events[i-2].kind = "combo"
        /\ g.events[i-3].kind = "score"

\* an orb that had not been resolved left the live set during a simulation step
OrbMissedBetween(g, g2) ==
    /\ SimStepDone(g2)
    /\ \E i \in 1..Len(g.entities) :
          /\ g.entities[i].type = ORB
          /\ ~g.entities[i].processed
          /\ g.entities[i].id \notin EntityIds(g2)

streakAfter(streak, g, g2) ==
    IF ResetDone(g2) THEN 0
    ELSE IF OrbMissedBetween(g, g2) THEN Len(EventsOf(g2, "orbCatch"))
    ELSE streak + Len(EventsOf(g2, "orbCatch"))

CommandNames == {"pause", "restart", "start"}

KeysOf(c) ==
    CASE c = "pause" -> PauseKeys
      [] c = "restart" -> RestartKeys
      [] c = "start" -> StartKeys

\* what CVEngine.processResults reports when no hand is in the frame
NoDetection ==
    [detected |-> FALSE, gesture |-> "none", confidence |-> 0, position |-> Centre]

\* obs after featureProcessor.process(cvResults)
obsProcess(o, cvResults) == [o EXCEPT !.raw = cvResults, !.beat = 1 - @]

\* no conditioned signal
NoSignal == [normalizedX |-> 0, normalizedY |-> 0, gesture |-> "absent"]

ObsInit ==
    [streak |-> 0,
     raw |-> NoDetection,
     beat |-> 0,
     lastId |-> 0,
     peak |-> 1,
     ret |-> NullResults,
     call |-> 0,
     video |-> FALSE,
     busy |-> FALSE,
     threw |-> FALSE,
     overs |-> 0,
     live |-> {},
     done |-> {},
     signal |-> NoSignal,
     late |-> 0,
     tick |-> 0,
     key |-> [c \in CommandNames |-> "none"],
     hold |-> [c \in CommandNames |-> 0],
     press |-> [c \in CommandNames |-> 0]]

\* obs after a key-down event of `code` seen by mapper m
obsKeyDown(o, m, code) ==
    LET fresh == code \notin m.keys
        aliasDown(c) == (m.keys \cap KeysOf(c)) \ {code} # {}
        eligible(c) == c # "start" \/ ~m.currentInput.actionPrimary
    IN  [o EXCEPT
          !.hold = [c \in CommandNames |->
                      IF code \notin KeysOf(c) \/ ~fresh THEN @[c]
                      ELSE IF ~aliasDown(c) /\ eligible(c) THEN 1
                      ELSE 0],
          !.key = [c \in CommandNames |->
                      IF code \notin KeysOf(c) \/ ~fresh THEN @[c]
                      ELSE IF ~aliasDown(c) /\ eligible(c) THEN code
                      ELSE "none"],
          !.press = [c \in CommandNames |->
                      IF code \in KeysOf(c) /\ fresh THEN 1 ELSE @[c]]]

\* obs after a key-up event of `code`: a hold of its command is over
obsKeyUp(o, code) ==
    [o EXCEPT
      !.hold = [c \in CommandNames |-> IF code \in KeysOf(c) THEN 0 ELSE @[c]],
      !.key = [c \in CommandNames |-> IF code \in KeysOf(c) THEN "none" ELSE @[c]]]

\* obs after processCVInput(sig) on mapper m
obsSignal(o, m, sig) ==
    IF m.cvEnabled THEN [o EXCEPT !.signal = sig]
    ELSE [o EXCEPT !.late = 1]

\* obs after a poll()
obsPoll(o) ==
    [o EXCEPT
      !.hold = [c \in CommandNames |->
                  IF @[c] = 0 THEN 0 ELSE IF @[c] = 1 THEN 2 ELSE 3],
      !.press = [c \in CommandNames |-> IF @[c] = 1 THEN 2 ELSE 0],
      !.late = IF @ = 0 THEN 0 ELSE 2]

(***************************************************************************)
(* The engine driven frame by frame by gameLoop.  The start and restart     *)
(* buttons of the page call startGame() and restart() directly; that DOM    *)
(* wiring is outside the simulation step and is not part of Spec.           *)
(***************************************************************************)
NoInput ==
    [horizontal |-> 0, vertical |-> 0, actionPrimary |-> FALSE,
     pause |-> FALSE, restart |-> FALSE, start |-> FALSE, source |-> "keyboard"]

\* the UnifiedInput records handed to update(): axes and primary action without a
\* command, and each command (and pause together with restart) on its own
Inputs ==
    {[NoInput EXCEPT !.horizontal = h, !.actionPrimary = a] :
        h \in AxisValues, a \in BOOLEAN}
    \cup {[NoInput EXCEPT !.pause = TRUE], [NoInput EXCEPT !.restart = TRUE],
          [NoInput EXCEPT !.start = TRUE],
          [NoInput EXCEPT !.pause = TRUE, !.restart = TRUE]}

Begin(g) == [g EXCEPT !.events = <<>>]

\* gameLoop: deltaTime = (now - lastFrameTime) / 1000, for `elapsed` ms between frames
deltaTime(elapsed) == elapsed

\* the main application before its loop and gesture pipeline have done anything
LoopInit ==
    [pc |-> "frame", cvInitialized |-> FALSE, cvPipeline |-> "starting", deltaTime |-> 0]

\* the largest combo notified since the last reset(): reset() notifies combo 1
peakAfter(peak, g2) ==
    LET notified == {e.a : e \in Range(EventsOf(g2, "combo"))}
        since == (IF ResetDone(g2) THEN {1} ELSE {peak}) \cup notified
    IN  CHOOSE c \in since : \A d \in since : d <= c

\* the transitions to GAME_OVER notified since the last reset()
oversAfter(overs, g2) ==
    (IF ResetDone(g2) THEN 0 ELSE overs)
    + Cardinality({k \in 1..Len(g2.events) :
                      g2.events[k].kind = "stateChange" /\ g2.events[k].new = GAME_OVER})

\* the identifiers announced as spawned and not announced as removed
liveAfter(live, g2) ==
    (live \cup {e.id : e \in Range(EventsOf(g2, "spawn"))})
    \ {e.id : e \in Range(EventsOf(g2, "remove"))}

\* the identifiers with an orbCatch or hazardHit notification and no removal yet
doneAfter(done, g2) ==
    (done \ {e.id : e \in Range(EventsOf(g2, "remove"))})
    \cup {e.id : e \in Range(SelectSeq(g2.events,
                                LAMBDA e : e.kind \in {"orbCatch", "hazardHit"}))}

\* obs after update() took the engine from g to g2
obsFrame(o, g, g2) ==
    [o EXCEPT !.streak = streakAfter(@, g, g2),
              !.done = doneAfter(@, g2),
              !.live = liveAfter(@, g2),
              !.overs = oversAfter(@, g2),
              !.peak = peakAfter(@, g2),
              !.lastId = LET spawned == {e.id : e \in Range(EventsOf(g2, "spawn"))}
                         IN  IF spawned = {} THEN @
                             ELSE Max(@, CHOOSE i \in spawned : \A j \in spawned : j <= i)]

\* the placements Math.random() can yield for a spawn that is due in this frame
Placements(due, S) == IF due THEN S ELSE {0}

\* one iteration of gameLoop: gameController.update(deltaTime, input)
Frame(dts, ins, xs, zs, cap) ==
    \E elapsed \in dts, in \in ins :
      \E ox \in Placements(orbDue(gc, deltaTime(elapsed)), xs),
         oz \in Placements(orbDue(gc, deltaTime(elapsed)), zs),
         hx \in Placements(hazardDue(gc, deltaTime(elapsed)), xs),
         hz \in Placements(hazardDue(gc, deltaTime(elapsed)), zs) :
        LET dt == deltaTime(elapsed)
            g2 == update(Begin(gc), dt, in, <<ox, oz, hx, hz>>)
        IN  /\ g2.entityIdCounter <= cap
            /\ gc' = g2
            /\ loop' = [loop EXCEPT !.deltaTime = dt]
            /\ obs' = obsFrame(obs, gc, g2)
            /\ input' = in
            /\ UNCHANGED <<im, fp, cv>>

Update == Frame(Dts, Inputs, SpawnXs, SpawnZs, MaxSpawned)

Init ==
    /\ gc = GameControllerInit
    /\ im = InputMapperInit
    /\ input = NoInput
    /\ loop = LoopInit
    /\ fp = FeatureProcessorInit
    /\ cv = CVEngineInit
    /\ obs = ObsInit

Next == Update

Spec == Init /\ [][Next]_vars

(***************************************************************************)
(* The engine played long enough for the score to pass a threshold of the  *)
(* difficulty table: frames of one and two seconds, the platform under the  *)
(* spawn column or beside it, start and restart.                            *)
(***************************************************************************)
LevelInputs ==
    {[NoInput EXCEPT !.horizontal = h] : h \in AxisValues}
    \cup {[NoInput EXCEPT !.start = TRUE], [NoInput EXCEPT !.restart = TRUE]}

\* frame times (ms) of SpecLevels
LevelDts == {1000, 2000}

LevelFrame == Frame(LevelDts, LevelInputs, SpawnXs, SpawnZs, MaxSpawnedLevels)

SpecLevels == Init /\ [][LevelFrame]_vars

(***************************************************************************)
(* The engine under frames that drain and recharge the shield by parts:    *)
(* an empty frame, a frame of 0.3 s and a stalled frame of 4 s, with the   *)
(* primary action held or not.                                             *)
(***************************************************************************)
ShieldDts == {0, 300, 4000}

ShieldInputs ==
    {[NoInput EXCEPT !.actionPrimary = a] : a \in BOOLEAN}
    \cup {[NoInput EXCEPT !.start = TRUE], [NoInput EXCEPT !.restart = TRUE]}

ShieldFrame == Frame(ShieldDts, ShieldInputs, SpawnXs, SpawnZs, MaxSpawnedShield)

SpecShield == Init /\ [][ShieldFrame]_vars

(***************************************************************************)
(* The InputMapper driven by the device listeners and polled by gameLoop:  *)
(* key-down (first press and auto-repeat alike), key-up of a key that is   *)
(* down, the primary mouse button, gesture results, and getInput().        *)
(***************************************************************************)
CommandKeys == PauseKeys \cup RestartKeys \cup StartKeys

Gestures == {"none", "pinch"}

KeyDown ==
    \E code \in CommandKeys :
        /\ im' = handleKeyDown(im, code)
        /\ obs' = obsKeyDown(obs, im, code)
        /\ UNCHANGED <<gc, input, loop, fp, cv>>

KeyUp ==
    \E code \in im.keys :
        /\ im' = handleKeyUp(im, code)
        /\ obs' = obsKeyUp(obs, code)
        /\ UNCHANGED <<gc, input, loop, fp, cv>>

MouseDown ==
    /\ ~im.mouse.clicked
    /\ im' = handleMouseDown(im, 0)
    /\ UNCHANGED <<gc, input, loop, obs, fp, cv>>

MouseUp ==
    /\ im.mouse.clicked
    /\ im' = handleMouseUp(im, 0)
    /\ UNCHANGED <<gc, input, loop, obs, fp, cv>>

\* initCVPipeline succeeded
EnableCV ==
    /\ ~im.cvEnabled
    /\ im' = enableCV(im)
    /\ UNCHANGED <<gc, input, loop, obs, fp, cv>>

\* cvEngine.onResults: the conditioned signal reaches the mapper
CVResult ==
    \E g \in Gestures :
        /\ im.cvEnabled
        /\ im' = processCVInput(im, [normalizedX |-> 0, normalizedY |-> 0, gesture |-> g])
        /\ obs' = obsSignal(obs, im, [normalizedX |-> 0, normalizedY |-> 0, gesture |-> g])
        /\ UNCHANGED <<gc, input, loop, fp, cv>>

\* gameLoop: const input = this.inputMapper.getInput()
Poll ==
    /\ input' = getInputResult(im)
    /\ im' = getInput(im)
    /\ obs' = obsPoll(obs)
    /\ UNCHANGED <<gc, loop, fp, cv>>

NextInput == KeyDown \/ KeyUp \/ MouseDown \/ MouseUp \/ EnableCV \/ CVResult \/ Poll

SpecInput == Init /\ [][NextInput]_vars

(***************************************************************************)
(* The InputMapper as the fusion layer, under any order of its operations: *)
(* the gesture source switched on and off, conditioned signals arriving    *)
(* whether or not it is on, directional keys, Space, the mouse, and polls. *)
(***************************************************************************)
FusionKeys == {"ArrowLeft", "ArrowRight", "Space"}

\* pointer positions (clientX, clientY) in the innerWidth x innerHeight viewport
MousePoints == {<<0, 0>>, <<750, 250>>}

\* conditioned signals of the FeatureProcessor
Signals ==
    {[normalizedX |-> 600, normalizedY |-> -200, gesture |-> "none"],
     [normalizedX |-> 600, normalizedY |-> -200, gesture |-> "pinch"],
     [normalizedX |-> -300, normalizedY |-> 400, gesture |-> "fist"]}

FusionKeyDown ==
    \E code \in FusionKeys :
        /\ im' = handleKeyDown(im, code)
        /\ obs' = obsKeyDown(obs, im, code)
        /\ UNCHANGED <<gc, input, loop, fp, cv>>

FusionKeyUp ==
    \E code \in im.keys :
        /\ im' = handleKeyUp(im, code)
        /\ obs' = obsKeyUp(obs, code)
        /\ UNCHANGED <<gc, input, loop, fp, cv>>

MouseMove ==
    \E p \in MousePoints :
        /\ im' = handleMouseMove(im, p[1], p[2])
        /\ UNCHANGED <<gc, input, loop, obs, fp, cv>>

SourceOn ==
    /\ ~im.cvEnabled
    /\ im' = enableCV(im)
    /\ obs' = [obs EXCEPT !.late = 0]
    /\ UNCHANGED <<gc, input, loop, fp, cv>>

SourceOff ==
    /\ im.cvEnabled
    /\ im' = disableCV(im)
    /\ UNCHANGED <<gc, input, loop, obs, fp, cv>>

Ingest ==
    \E sig \in Signals :
        /\ im' = processCVInput(im, sig)
        /\ obs' = obsSignal(obs, im, sig)
        /\ UNCHANGED <<gc, input, loop, fp, cv>>

\* getInput(), counted
FusionPoll ==
    /\ input' = getInputResult(im)
    /\ im' = getInput(im)
    /\ obs' = [obsPoll(obs) EXCEPT !.tick = 1 - @]
    /\ UNCHANGED <<gc, loop, fp, cv>>

NextFusion ==
    \/ FusionKeyDown \/ FusionKeyUp \/ MouseMove \/ MouseDown \/ MouseUp
    \/ SourceOn \/ SourceOff \/ Ingest \/ FusionPoll

SpecFusion == Init /\ [][NextFusion]_vars

(***************************************************************************)
(* The engine under frames of 0.7 and 1.4 s, which put the spawn timers on  *)
(* both sides of 1.5 s and of 1.5 s / 1.1, played until the second level.   *)
(***************************************************************************)
MaxSpawnedSpawn == 9

SpawnDts == {700, 1400}

SpawnInputs ==
    {[NoInput EXCEPT !.horizontal = h] : h \in AxisValues}
    \cup {[NoInput EXCEPT !.start = TRUE]}

SpawnFrame == Frame(SpawnDts, SpawnInputs, SpawnXs, SpawnZs, MaxSpawnedSpawn)

SpecSpawn == Init /\ [][SpawnFrame]_vars

(***************************************************************************)
(* The engine steered over the whole play area: axes inside and outside    *)
(* [-1, 1], a target closer than the movement threshold, and frames of 0,   *)
(* 0.2 and 1 s.                                                             *)
(***************************************************************************)
MaxSpawnedPlayer == 1

\* <<horizontal, vertical>> of the inputs of SpecPlayer
PlayerAxes == {<<1500, -2000>>, <<-2000, 2>>, <<2, 1500>>}

PlayerDts == {0, 200, 1000}

PlayerInputs ==
    {[NoInput EXCEPT !.horizontal = a[1], !.vertical = a[2]] : a \in PlayerAxes}
    \cup {[NoInput EXCEPT !.start = TRUE]}

PlayerFrame == Frame(PlayerDts, PlayerInputs, SpawnXs, SpawnZs, MaxSpawnedPlayer)

SpecPlayer == Init /\ [][PlayerFrame]_vars

(***************************************************************************)
(* The InputMapper in gesture mode: initCVPipeline has enabled the gesture  *)
(* source before the first key event, conditioned signals keep arriving,   *)
(* and the pause and restart keys are pressed and released between polls.   *)
(***************************************************************************)
GestureKeys == PauseKeys \cup RestartKeys

InitGesture ==
    /\ gc = GameControllerInit
    /\ im = enableCV(InputMapperInit)
    /\ input = NoInput
    /\ loop = [LoopInit EXCEPT !.cvPipeline = "ready", !.cvInitialized = TRUE]
    /\ fp = FeatureProcessorInit
    /\ cv = CVEngineInit
    /\ obs = ObsInit

GestureKeyDown ==
    \E code \in GestureKeys :
        /\ im' = handleKeyDown(im, code)
        /\ obs' = obsKeyDown(obs, im, code)
        /\ UNCHANGED <<gc, input, loop, fp, cv>>

NextGesture == GestureKeyDown \/ KeyUp \/ CVResult \/ Poll

SpecGesture == InitGesture /\ [][NextGesture]_vars

(***************************************************************************)
(* The InputMapper on its fallback sources alone: directional keys of both *)
(* axes (an arrow and a letter among them), Space, the mouse and polls.     *)
(***************************************************************************)
FallbackKeys == {"ArrowLeft", "KeyD", "ArrowUp", "ArrowDown", "Space"}

FallbackKeyDown ==
    \E code \in FallbackKeys :
        /\ im' = handleKeyDown(im, code)
        /\ obs' = obsKeyDown(obs, im, code)
        /\ UNCHANGED <<gc, input, loop, fp, cv>>

NextFallback ==
    \/ FallbackKeyDown \/ FusionKeyUp \/ MouseMove \/ MouseDown \/ MouseUp \/ FusionPoll

SpecFallback == Init /\ [][NextFallback]_vars

(***************************************************************************)
(* The main application: initCVPipeline ends in enableCV() or in           *)
(* handleCVFailure(), and gameLoop runs one iteration per animation frame. *)
(* An iteration that finds the pipeline initialised and the video ready    *)
(* sends the frame to the detector and is suspended at                     *)
(*     await this.cvEngine.processFrame(video)                             *)
(* (loop.pc = "detect") until hands.send() settles ("resume"); onResults   *)
(* hands the conditioned signal to the mapper before that.  Key events     *)
(* arrive between the parts of an iteration.                               *)
(***************************************************************************)
\* Space starts the game from the menu and holds the shield
LoopKeys == {"Space"}

\* frame times (ms) of SpecLoop
LoopDts == {1000}

\* getInput() and update(deltaTime, input), then requestAnimationFrame(gameLoop)
LoopStep(dt, cap) ==
    \E ox \in Placements(orbDue(gc, dt), SpawnXs), oz \in Placements(orbDue(gc, dt), SpawnZs),
       hx \in Placements(hazardDue(gc, dt), SpawnXs),
       hz \in Placements(hazardDue(gc, dt), SpawnZs) :
        LET g2 == update(Begin(gc), dt, getInputResult(im), <<ox, oz, hx, hz>>)
        IN  /\ g2.entityIdCounter <= cap
            /\ input' = getInputResult(im)
            /\ im' = getInput(im)
            /\ gc' = g2
            /\ obs' = obsFrame(obsPoll(obs), gc, g2)
            /\ UNCHANGED <<fp, cv>>

\* initCVPipeline run again after handleCVFailure, as a retry would
PipelineReady_retry ==
    /\ loop.cvPipeline \in {"starting", "failed"}
    /\ loop' = [loop EXCEPT !.cvPipeline = "ready", !.cvInitialized = TRUE]
    /\ im' = enableCV(im)
    /\ UNCHANGED <<gc, input, obs, fp, cv>>

\* initCVPipeline reached its end: cvInitialized = true, inputMapper.enableCV()
PipelineReady ==
    /\ loop.cvPipeline = "starting"
    /\ loop' = [loop EXCEPT !.cvPipeline = "ready", !.cvInitialized = TRUE]
    /\ im' = enableCV(im)
    /\ UNCHANGED <<gc, input, obs, fp, cv>>

\* initCVPipeline gave up: handleCVFailure(reason)
PipelineFailure ==
    /\ loop.cvPipeline = "starting"
    /\ loop' = [loop EXCEPT !.cvPipeline = "failed", !.cvInitialized = FALSE]
    /\ im' = disableCV(im)
    /\ UNCHANGED <<gc, input, obs, fp, cv>>

\* an animation frame: the iteration runs through, or stops at the await
LoopFrame ==
    \E elapsed \in LoopDts, videoReady \in BOOLEAN :
        /\ loop.pc = "frame"
        /\ IF loop.cvInitialized /\ videoReady
           THEN /\ loop' = [loop EXCEPT !.pc = "detect", !.deltaTime = deltaTime(elapsed)]
                /\ UNCHANGED <<gc, im, input, obs, fp, cv>>
           ELSE /\ loop' = [loop EXCEPT !.deltaTime = deltaTime(elapsed)]
                /\ LoopStep(deltaTime(elapsed), MaxSpawnedLoop)

\* the detector answers: processResults -> onResults -> processCVInput, send() settles;
\* the conditioner between them (SpecConditioner) is taken as handing over any signal
DetectorReturn ==
    \E g \in Gestures :
        LET sig == [normalizedX |-> 0, normalizedY |-> 0, gesture |-> g]
        IN  /\ loop.pc = "detect"
            /\ im' = processCVInput(im, sig)
            /\ obs' = obsSignal(obs, im, sig)
            /\ loop' = [loop EXCEPT !.pc = "resume"]
            /\ UNCHANGED <<gc, input, fp, cv>>

\* the rest of the iteration, after the await
LoopResume ==
    /\ loop.pc = "resume"
    /\ loop' = [loop EXCEPT !.pc = "frame"]
    /\ LoopStep(loop.deltaTime, MaxSpawnedLoop)

LoopKeyDown ==
    \E code \in LoopKeys :
        /\ im' = handleKeyDown(im, code)
        /\ obs' = obsKeyDown(obs, im, code)
        /\ UNCHANGED <<gc, input, loop, fp, cv>>

LoopKeyUp ==
    \E code \in im.keys :
        /\ im' = handleKeyUp(im, code)
        /\ obs' = obsKeyUp(obs, code)
        /\ UNCHANGED <<gc, input, loop, fp, cv>>

NextLoop ==
    \/ PipelineReady \/ PipelineFailure \/ LoopFrame \/ DetectorReturn \/ LoopResume
    \/ LoopKeyDown \/ LoopKeyUp

SpecLoop == Init /\ [][NextLoop]_vars

(***************************************************************************)
(* The FeatureProcessor fed by the detector, one process() call per        *)
(* result: no hand, or a hand at some position showing some gesture.       *)
(* SpecConditioner varies the gesture, with the hand at the left or the    *)
(* right edge of the input range; SpecDeadZone varies the position, two    *)
(* of the three positions lying 0.01 apart.                                *)
(***************************************************************************)
\* handedness.score of a detection
RawConfidence == 90

Detections(gestures, positions) ==
    {[detected |-> TRUE, gesture |-> g, confidence |-> RawConfidence, position |-> p] :
        g \in gestures, p \in positions}

RawGestures == {"pinch", "open", "fist"}

EdgePositions == {[x |-> 300, y |-> 1500], [x |-> 2700, y |-> 1500]}

NearPositions == {[x |-> 300, y |-> 1500], [x |-> 330, y |-> 1500], [x |-> 2700, y |-> 1500]}

ProcessOf(results) ==
    \E cvResults \in results :
        /\ fp' = process(fp, cvResults)
        /\ obs' = obsProcess(obs, cvResults)
        /\ UNCHANGED <<gc, im, input, loop, cv>>

Process == ProcessOf({NoDetection} \cup Detections(RawGestures, EdgePositions))

SpecConditioner == Init /\ [][Process]_vars

ProcessPosition == ProcessOf({NoDetection} \cup Detections({"open"}, NearPositions))

SpecDeadZone == Init /\ [][ProcessPosition]_vars

\* raw positions outside the frame (-0.1 and 1.1), inside the clamped edge (0.09)
\* and at the centre
RangePositions == {[x |-> -300, y |-> 3300], [x |-> 3300, y |-> 270], [x |-> 1500, y |-> 1500]}

ProcessRange == ProcessOf({NoDetection} \cup Detections({"open"}, RangePositions))

SpecRange == Init /\ [][ProcessRange]_vars

(***************************************************************************)
(* Helpers of the claims.                                                  *)
(***************************************************************************)
RECURSIVE SumPoints(_, _)
SumPoints(evs, i) == IF i > Len(evs) THEN 0 ELSE evs[i].a + SumPoints(evs, i + 1)

\* index of the first collision notification of the operation, Len + 1 if none
FirstResolve(g) ==
    LET R == {k \in 1..Len(g.events) : g.events[k].kind \in {"orbCatch", "hazardHit"}}
    IN  IF R = {} THEN Len(g.events) + 1 ELSE CHOOSE k \in R : \A l \in R : k <= l

SessionValues(g) ==
    <<g.player, g.score, g.combo, g.maxCombo, g.orbsCaught, g.entities,
      g.entityIdCounter, g.spawnConfig, g.difficulty>>

\* planar distance to the player below 1.5 + 0.6, on the squares
NearHazard(g, e) ==
    (e.x - g.player.x) * (e.x - g.player.x) + (e.z - g.player.z) * (e.z - g.player.z)
        < 2100 * 2100

(***************************************************************************)
(* C1: The engine starts in Menu, and every change of state made by a      *)
(* simulation step, the intermediate ones that setState announces          *)
(* included, is one of Menu->Playing, Playing->Paused, Paused->Playing,    *)
(* Playing->GameOver, GameOver->Playing.                                   *)
(***************************************************************************)
C1_Allowed ==
    {<<MENU, PLAYING>>, <<PLAYING, PAUSED>>, <<PAUSED, PLAYING>>,
     <<PLAYING, GAME_OVER>>, <<GAME_OVER, PLAYING>>}

C1_StepOk ==
    /\ gc'.state # gc.state => <<gc.state, gc'.state>> \in C1_Allowed
    /\ \A k \in 1..Len(gc'.events) :
          LET e == gc'.events[k]
          IN  (e.kind = "stateChange" /\ e.new # e.old) => <<e.old, e.new>> \in C1_Allowed

C1_StateMachine == (gc.state = MENU) /\ [][C1_StepOk]_vars

\* a session that ended in GameOver has been re-entered by a restart
C1_Witness ==
    /\ gc.state = PLAYING
    /\ \E k \in 1..Len(gc.events) :
          gc.events[k].kind = "stateChange" /\ gc.events[k].old = GAME_OVER

(***************************************************************************)
(* C2: A simulation step taken in Menu, Paused or GameOver leaves player,  *)
(* shield, entities, spawn timers, difficulty and statistics as they were, *)
(* or is the session reset of a start/restart (into Playing, nothing       *)
(* spawned, nothing advanced).                                             *)
(***************************************************************************)
C2_StepOk ==
    gc.state # PLAYING =>
        \/ SessionValues(gc') = SessionValues(gc)
        \/ /\ ResetDone(gc')
           /\ gc'.state = PLAYING
           /\ gc'.player = InitPlayer
           /\ gc'.spawnConfig = [orbTimer |-> 0, hazardTimer |-> 0]
           /\ gc'.difficulty.level = 1
           /\ gc'.entities = <<>>
           /\ gc'.entityIdCounter = gc.entityIdCounter
           /\ ~HasEvent(gc', "spawn")
           /\ ~HasEvent(gc', "playerMove")

C2_NoPhysicsOffPlaying == [][C2_StepOk]_vars

\* a step was taken while Paused with entities in flight, and changed nothing
C2_Witness ==
    /\ gc.state = PAUSED
    /\ gc.events = <<>>
    /\ Len(gc.entities) > 0
    /\ gc.player.shieldEnergy < ShieldFull

(***************************************************************************)
(* C3: After a start from Menu or a restart from any state the state is    *)
(* Playing with no live entity, score 0, combo 1, maxCombo 1, orbs caught  *)
(* 0, player at (0,0), shield full and inactive, both timers 0 and level   *)
(* 1; a second restart right after yields the same statistics and player.  *)
(***************************************************************************)
C3_StepOk ==
    /\ ResetDone(gc') =>
          /\ gc'.state = PLAYING
          /\ gc'.entities = <<>>
          /\ gc'.score = 0 /\ gc'.combo = 1 /\ gc'.maxCombo = 1 /\ gc'.orbsCaught = 0
          /\ gc'.player.x = 0 /\ gc'.player.z = 0
          /\ gc'.player.shieldEnergy = ShieldFull /\ ~gc'.player.shieldActive
          /\ gc'.spawnConfig.orbTimer = 0 /\ gc'.spawnConfig.hazardTimer = 0
          /\ gc'.difficulty.level = 1
    /\ LET once == restart(gc)
           twice == restart(once)
       IN  getStats(twice) = getStats(once) /\ twice.player = once.player

C3_ResetState == [][C3_StepOk]_vars

\* a restart that discarded live entities of a session with points on the board
C3_Witness ==
    /\ ResetDone(gc)
    /\ HasEvent(gc, "remove")
    /\ gc.entityIdCounter > 1

(***************************************************************************)
(* C4: The i-th orb caught since the last missed orb (or session reset)    *)
(* adds exactly 100 * i to the score; in particular the first catch after  *)
(* a miss adds 100.                                                        *)
(***************************************************************************)
C4_StepOk ==
    SimStepDone(gc') =>
        LET cs == EventsOf(gc', "orbCatch")
            n == Len(cs)
        IN  /\ \A j \in 1..n : cs[j].a = 100 * (obs'.streak - n + j)
            /\ gc'.score = gc.score + SumPoints(cs, 1)

C4_ComboLaw == [][C4_StepOk]_vars

\* the second catch of a streak has just awarded 200
C4_Witness ==
    /\ obs.streak = 2
    /\ \E k \in 1..Len(gc.events) :
          gc.events[k].kind = "orbCatch" /\ gc.events[k].a = 200
    /\ gc.score = 300

(***************************************************************************)
(* C5: In the step that removes an orb that fell past the miss height      *)
(* uncaught, the combo is set to 1 before any collision of that step is    *)
(* resolved; in a step that removes no such orb (only caught orbs, or      *)
(* hazards that fell past) the combo is never reset.                       *)
(***************************************************************************)
C5_StepOk ==
    SimStepDone(gc') =>
        LET catches == Len(EventsOf(gc', "orbCatch"))
            combos == EventsOf(gc', "combo")
        IN  IF OrbMissedBetween(gc, gc')
            THEN /\ \E k \in 1..Len(gc'.events) :
                       /\ k < FirstResolve(gc')
                       /\ gc'.events[k].kind = "combo"
                       /\ gc'.events[k].a = 1
                 /\ gc'.combo = 1 + catches
            ELSE /\ gc'.combo = gc.combo + catches
                 /\ Len(combos) = catches

C5_MissResetsCombo == [][C5_StepOk]_vars

\* a combo of 2 has just been broken by a missed orb
C5_Witness ==
    /\ SimStepDone(gc)
    /\ gc.maxCombo = 2 /\ gc.combo = 1
    /\ \E k \in 1..Len(gc.events) : gc.events[k].kind = "combo" /\ gc.events[k].a = 1
    /\ HasEvent(gc, "remove")

(***************************************************************************)
(* C6: After a Playing step that leaves the shield inactive, every hazard  *)
(* in the catch zone within 1.5 + 0.6 of the player is flagged processed,  *)
(* the state is GameOver and a hazard-resolved notification with           *)
(* blocked = false was emitted for it.                                     *)
(***************************************************************************)
C6_HazardEndsSession ==
    (SimStepDone(gc) /\ ~gc.player.shieldActive) =>
        \A i \in 1..Len(gc.entities) :
            LET e == gc.entities[i]
            IN  (e.type = HAZARD /\ e.inCatchZone /\ NearHazard(gc, e)) =>
                    /\ gc.state = GAME_OVER
                    /\ e.processed
                    /\ \E k \in 1..Len(gc.events) :
                          /\ gc.events[k].kind = "hazardHit"
                          /\ gc.events[k].id = e.id
                          /\ ~gc.events[k].flag

\* an unshielded hazard has just hit the player
C6_Witness ==
    /\ gc.state = GAME_OVER
    /\ SimStepDone(gc)
    /\ \E i \in 1..Len(gc.entities) :
          /\ gc.entities[i].type = HAZARD
          /\ gc.entities[i].processed
          /\ NearHazard(gc, gc.entities[i])
    /\ \E k \in 1..Len(gc.events) : gc.events[k].kind = "hazardHit" /\ ~gc.events[k].flag

(***************************************************************************)
(* C7: In a Playing step every hazard in the catch zone that overlaps the  *)
(* player is resolved with blocked = (shield active after the step's       *)
(* shield update), the same value for all of them; blocked hazards leave   *)
(* the state Playing and score and combo untouched; a hazard arriving in   *)
(* the step in which the energy reaches zero is not blocked.               *)
(***************************************************************************)
C7_StepOk ==
    SimStepDone(gc') =>
        LET hits == EventsOf(gc', "hazardHit")
            active == gc'.player.shieldActive
        IN  /\ \A i \in 1..Len(gc'.entities) :
                  LET e == gc'.entities[i]
                  IN  (e.type = HAZARD /\ e.inCatchZone /\ NearHazard(gc', e)) =>
                          /\ e.processed
                          /\ \E k \in 1..Len(hits) : hits[k].id = e.id
            /\ \A k \in 1..Len(hits) : hits[k].flag = active
            /\ (hits # <<>> /\ active) => gc'.state = PLAYING
            /\ (hits # <<>> /\ ~active) => gc'.state = GAME_OVER
            /\ (hits # <<>> /\ active /\ ~HasEvent(gc', "orbCatch")
                  /\ ~OrbMissedBetween(gc, gc')) =>
                      (gc'.score = gc.score /\ gc'.combo = gc.combo)
            /\ gc'.player.shieldEnergy = 0 => \A k \in 1..Len(hits) : ~hits[k].flag

C7_ShieldDecidesHazard == [][C7_StepOk]_vars

\* a hazard has just been absorbed by the active shield
C7_Witness ==
    /\ gc.state = PLAYING
    /\ gc.player.shieldActive
    /\ \E k \in 1..Len(gc.events) : gc.events[k].kind = "hazardHit" /\ gc.events[k].flag

(***************************************************************************)
(* C8: An orb that enters the catch zone (y <= 0.5) in a Playing step      *)
(* while the player stands at the orb's (x, z) is caught in that step      *)
(* (processed, not missed, 100 * combo awarded), and the next Playing      *)
(* step removes it from the live set with an entity-removed notification.  *)
(***************************************************************************)
C8_StepOk ==
    SimStepDone(gc') =>
        \A i \in 1..Len(gc.entities) :
            LET e == gc.entities[i]
                J == {j \in 1..Len(gc'.entities) : gc'.entities[j].id = e.id}
                cs == EventsOf(gc', "orbCatch")
            IN  /\ ( /\ e.type = ORB /\ ~e.processed /\ ~e.inCatchZone
                     /\ gc'.player.x = e.x /\ gc'.player.z = e.z
                     /\ (J = {} \/ \E j \in J : gc'.entities[j].y <= catchHeight) )
                   => /\ \E j \in J : gc'.entities[j].processed /\ ~gc'.entities[j].missed
                      /\ \E k \in 1..Len(cs) :
                            /\ cs[k].id = e.id
                            /\ cs[k].a = 100 * (gc'.combo - Len(cs) + k - 1)
                      /\ gc'.orbsCaught = gc.orbsCaught + Len(cs)
                /\ (e.type = ORB /\ e.processed)
                   => /\ J = {}
                      /\ \E k \in 1..Len(gc'.events) :
                            gc'.events[k].kind = "remove" /\ gc'.events[k].id = e.id

C8_CaughtOnEntry == [][C8_StepOk]_vars

\* C8 without the orbs that cross the whole catch band in one step
C8_StepOkNoSkip ==
    SimStepDone(gc') =>
        \A i \in 1..Len(gc.entities) :
            LET e == gc.entities[i]
                J == {j \in 1..Len(gc'.entities) : gc'.entities[j].id = e.id}
                cs == EventsOf(gc', "orbCatch")
            IN  ( /\ e.type = ORB /\ ~e.processed /\ ~e.inCatchZone
                  /\ gc'.player.x = e.x /\ gc'.player.z = e.z
                  /\ \E j \in J : gc'.entities[j].y <= catchHeight )
                => /\ \E j \in J : gc'.entities[j].processed /\ ~gc'.entities[j].missed
                   /\ \E k \in 1..Len(cs) :
                         /\ cs[k].id = e.id
                         /\ cs[k].a = 100 * (gc'.combo - Len(cs) + k - 1)

C8_CaughtUnlessSkipped == [][C8_StepOkNoSkip]_vars

(***************************************************************************)
(* C9: While a pause, restart or start key stays held after going down     *)
(* (alone among the keys of its command; for start with the primary        *)
(* action off at press time), whatever key-down repeats and polls follow,  *)
(* the first poll() after the press returns the command true and every     *)
(* later poll() returns it false.                                          *)
(***************************************************************************)
C9_OneShotWhileHeld ==
    \A c \in CommandNames :
        /\ obs.hold[c] = 2 => input[c]
        /\ obs.hold[c] = 3 => ~input[c]

\* P has been held across several polls, with auto-repeat key-downs in between
C9_Witness ==
    /\ obs.hold["pause"] = 3
    /\ obs.key["pause"] = "KeyP"
    /\ "KeyP" \in im.keys
    /\ im.commandCooldowns.pause
    /\ ~input.pause

(***************************************************************************)
(* C10: Every released->pressed transition of a pause or restart key is    *)
(* answered by poll(): the first poll() after the transition returns the   *)
(* command true, also when the key has been released again before it.      *)
(***************************************************************************)
C10_EveryPressDelivered ==
    \A c \in {"pause", "restart"} : obs.press[c] = 2 => input[c]

(***************************************************************************)
(* C11: No poll() result has start = true together with primary action =   *)
(* true, whatever the interleaving of key events, mouse events, gesture    *)
(* signals and polls.                                                      *)
(***************************************************************************)
C11_StartNeverWithAction == ~(input.start /\ input.actionPrimary)

\* what keyboard and mouse alone give: <<horizontal, vertical, primary action>>
FallbackOnly(m) ==
    LET kx == (IF {"ArrowLeft", "KeyA"} \cap m.keys # {} THEN -1000 ELSE 0)
              + (IF {"ArrowRight", "KeyD"} \cap m.keys # {} THEN 1000 ELSE 0)
        ky == (IF {"ArrowUp", "KeyW"} \cap m.keys # {} THEN -1000 ELSE 0)
              + (IF {"ArrowDown", "KeyS"} \cap m.keys # {} THEN 1000 ELSE 0)
        action == "Space" \in m.keys \/ m.mouse.clicked
    IN  IF kx # 0 \/ ky # 0 THEN <<kx, ky, action>>
        ELSE <<(2000 * m.mouse.x) \div innerWidth - 1000,
               (2000 * m.mouse.y) \div innerHeight - 1000, action>>

(***************************************************************************)
(* C12: A poll() taken while the gesture source is enabled returns the     *)
(* axes and primary action of the most recently ingested conditioned       *)
(* signal (primary action iff its gesture is pinch or fist), whatever the  *)
(* keys and the mouse do; a poll() taken while it is disabled returns the  *)
(* axes and primary action that keyboard and mouse give.                   *)
(***************************************************************************)
C12_StepOk ==
    obs'.tick # obs.tick =>
        IF im.cvEnabled
        THEN obs.signal # NoSignal =>
               /\ input'.horizontal = obs.signal.normalizedX
               /\ input'.vertical = obs.signal.normalizedY
               /\ input'.actionPrimary = (obs.signal.gesture \in {"pinch", "fist"})
        ELSE <<input'.horizontal, input'.vertical, input'.actionPrimary>>
                 = FallbackOnly(im)

C12_SourcePriority == [][C12_StepOk]_vars

(***************************************************************************)
(* C13: Every poll() taken while the gesture source is disabled returns    *)
(* axes, primary action and source tag derived from keyboard and mouse     *)
(* only, also after signals have been ingested since the disable.          *)
(***************************************************************************)
C13_StepOk ==
    (obs'.tick # obs.tick /\ ~im.cvEnabled) =>
        /\ <<input'.horizontal, input'.vertical, input'.actionPrimary>> = FallbackOnly(im)
        /\ input'.source \in {KEYBOARD, MOUSE}
        /\ input'.source = KEYBOARD <=>
              {"ArrowLeft", "ArrowRight", "ArrowUp", "ArrowDown",
               "KeyA", "KeyD", "KeyW", "KeyS"} \cap im.keys \notin
                  {{}, {"ArrowLeft", "ArrowRight"}}

C13_DisabledSuppressesGesture == [][C13_StepOk]_vars

\* a pinch at (0.6, -0.2) was taken in, the source was switched off, a further signal
\* arrived, and the poll after that gave the mouse position and no primary action
C13_Witness ==
    /\ ~im.cvEnabled
    /\ obs.late = 2
    /\ obs.signal.gesture = "pinch"
    /\ input.source = MOUSE
    /\ input.horizontal = 500
    /\ ~input.actionPrimary

\* number of thresholds of the table that are <= score
ThresholdsReached(score) ==
    Cardinality({i \in 1..Len(scoreThresholds) : scoreThresholds[i] <= score})

(***************************************************************************)
(* C14: After every Playing step that runs to completion, level is 1 + the *)
(* number of thresholds of [500, 1500, 3000, 5000, 8000] that are <= score,*)
(* speedMultiplier is 1 + (level-1) x 0.15 and spawnMultiplier is          *)
(* 1 + (level-1) x 0.10.                                                   *)
(***************************************************************************)
C14_StepOk ==
    SimStepDone(gc') =>
        /\ scoreThresholds = <<500, 1500, 3000, 5000, 8000>>
        /\ gc'.difficulty.level = 1 + ThresholdsReached(gc'.score)
        /\ gc'.difficulty.speedMultiplier = 100 + (gc'.difficulty.level - 1) * 15
        /\ gc'.difficulty.spawnMultiplier = 100 + (gc'.difficulty.level - 1) * 10

C14_DifficultyFormula == [][C14_StepOk]_vars

\* the step of the third catch in a row: score 600 has passed the first threshold
C14_Witness ==
    /\ gc.state = PLAYING
    /\ SimStepDone(gc)
    /\ HasEvent(gc, "orbCatch")
    /\ gc.score = 600
    /\ gc.difficulty.level = 2
    /\ gc.difficulty.speedMultiplier = 115
    /\ gc.difficulty.spawnMultiplier = 110

(***************************************************************************)
(* C15: From one step to the next, unless the step is a (re)start, score,  *)
(* level, speedMultiplier and spawnMultiplier do not decrease.             *)
(***************************************************************************)
C15_StepOk ==
    ~ResetDone(gc') =>
        /\ gc'.score >= gc.score
        /\ gc'.difficulty.level >= gc.difficulty.level
        /\ gc'.difficulty.speedMultiplier >= gc.difficulty.speedMultiplier
        /\ gc'.difficulty.spawnMultiplier >= gc.difficulty.spawnMultiplier

C15_SessionMonotonic == [][C15_StepOk]_vars

\* a step without a catch in a session that has reached level 2: score, level and
\* multipliers stay where the third catch put them
C15_Witness ==
    /\ gc.state = PLAYING
    /\ SimStepDone(gc)
    /\ ~ResetDone(gc)
    /\ ~HasEvent(gc, "orbCatch")
    /\ gc.score = 600
    /\ gc.difficulty = [level |-> 2, speedMultiplier |-> 115, spawnMultiplier |-> 110]

(***************************************************************************)
(* C16: Shield energy lies in [0, 1] in every reachable state, whatever    *)
(* the frame times (0 included) and the inputs of the steps taken.         *)
(***************************************************************************)
C16_ShieldEnergyInRange ==
    /\ gc.player.shieldEnergy >= 0
    /\ gc.player.shieldEnergy <= ShieldFull

\* the shield was held through a stalled frame of 4 s, which would take 2.0 off the
\* energy: it stops at 0 and the shield is off
C16_Witness ==
    /\ gc.state = PLAYING
    /\ loop.deltaTime = 4000
    /\ \E i \in 1..Len(gc.events) :
          /\ gc.events[i].kind = "shield"
          /\ gc.events[i].a = 0
          /\ ~gc.events[i].flag
    /\ gc.player.shieldEnergy = 0

(***************************************************************************)
(* C17: Every entity spawned gets an identifier strictly greater than the  *)
(* identifier of every entity spawned before it, in this session or an     *)
(* earlier one (restart does not rewind the counter), and no two live      *)
(* entities share an identifier.                                           *)
(***************************************************************************)
C17_StepOk ==
    LET sp == EventsOf(gc', "spawn")
    IN  /\ \A i \in 1..Len(sp) :
              /\ sp[i].id > obs.lastId
              /\ \A k \in 1..Len(gc.entities) : sp[i].id > gc.entities[k].id
              /\ \A j \in 1..(i - 1) : sp[i].id > sp[j].id
        /\ \A i, j \in 1..Len(gc'.entities) :
              i # j => gc'.entities[i].id # gc'.entities[j].id

C17_IdsIncrease == [][C17_StepOk]_vars

\* the first spawn of a session started by restart, after an earlier session had
\* spawned entities 1 and 2: it gets identifier 3
C17_Witness ==
    /\ gc.state = PLAYING
    /\ obs.lastId = 3
    /\ Len(gc.entities) = 1
    /\ gc.entities[1].id = 3
    /\ \E i \in 1..Len(gc.events) : gc.events[i].kind = "spawn" /\ gc.events[i].id = 3

(***************************************************************************)
(* C18: In every reachable state each live entity has at most one of its   *)
(* flags processed, missed and inCatchZone set.                            *)
(***************************************************************************)
C18_FlagsExclusive ==
    \A i \in 1..Len(gc.entities) :
        LET e == gc.entities[i]
        IN  Cardinality({f \in {"processed", "missed", "inCatchZone"} : e[f]}) <= 1

\* the longest real time between two frames that Spec explores (a stalled tab)
LongestFrame == CHOOSE d \in Dts : \A e \in Dts : e <= d

(***************************************************************************)
(* C19: The elapsed time applied in a simulation step stays under a fixed  *)
(* bound however long the real time between two frames was: the step that *)
(* follows the longest gap explored is not given that gap in full.         *)
(***************************************************************************)
C19_DeltaTimeClamped == SimStepDone(gc) => loop.deltaTime < LongestFrame

(***************************************************************************)
(* C20: The simulation step of a frame does not wait for the gesture       *)
(* detector: while a detector request is outstanding, the step of the      *)
(* frame (getInput() and update()) can be taken.                           *)
(***************************************************************************)
C20_StepNotDelayed == loop.pc = "detect" => ENABLED LoopResume

\* the last `size` tags of buffer q followed by tag g
Buffered(q, g, size) ==
    LET all == Append(q, g)
    IN  IF Len(all) > size THEN SubSeq(all, Len(all) - size + 1, Len(all)) ELSE all

(***************************************************************************)
(* C21: After a process() call that carries a detection, the stabilized    *)
(* gesture is the tag that occurs at least 2 = ceil(3 x 0.6) times among   *)
(* the buffered tags (the 3 most recent at most) if there is one, and is   *)
(* what it was before the call otherwise.                                  *)
(***************************************************************************)
C21_StepOk ==
    (obs'.beat # obs.beat /\ obs'.raw.detected) =>
        LET buffer == Buffered(fp.gestureBuffer, obs'.raw.gesture, 3)
            majority == {g \in Range(buffer) :
                            Cardinality({i \in 1..Len(buffer) : buffer[i] = g}) >= 2}
        IN  /\ fp'.gestureBuffer = buffer
            /\ \A g \in majority : fp'.currentGesture = g
            /\ majority = {} => fp'.currentGesture = fp.currentGesture
            /\ fp'.processedData.gesture = fp'.currentGesture

C21_GestureHysteresis == [][C21_StepOk]_vars

\* pinch, pinch, open was fed: the stabilized gesture is pinch
C21_Witness ==
    /\ fp.gestureBuffer = <<"pinch", "pinch", "open">>
    /\ obs.raw.detected
    /\ obs.raw.gesture = "open"
    /\ fp.currentGesture = "pinch"
    /\ fp.processedData.gesture = "pinch"

\* open and fist are buffered, each seen once: the stabilized gesture is still none
C21_WitnessNoChange ==
    /\ fp.gestureBuffer = <<"open", "fist">>
    /\ obs.raw.detected
    /\ fp.currentGesture = "none"

(***************************************************************************)
(* C22: A process() call without a detection removes the oldest element of *)
(* the position buffer and of the gesture buffer (when there is one),      *)
(* reports confidence 0 and stability false, keeps the stabilized gesture  *)
(* while the gesture buffer is not empty after the call, and reports none  *)
(* once it is empty.                                                       *)
(***************************************************************************)
C22_StepOk ==
    (obs'.beat # obs.beat /\ ~obs'.raw.detected) =>
        /\ fp'.positionHistory =
              IF fp.positionHistory = <<>> THEN <<>> ELSE Tail(fp.positionHistory)
        /\ fp'.gestureBuffer =
              IF fp.gestureBuffer = <<>> THEN <<>> ELSE Tail(fp.gestureBuffer)
        /\ fp'.processedData.confidence = 0
        /\ ~fp'.processedData.isStable
        /\ fp'.processedData.gesture =
              IF fp'.gestureBuffer # <<>> THEN fp.currentGesture ELSE "none"
        /\ fp'.currentGesture = fp'.processedData.gesture

C22_DecayOnAbsence == [][C22_StepOk]_vars

\* pinch had been stabilized; the hand has been away for as many calls as the buffer
\* held tags, and the gesture reported is none
C22_Witness ==
    /\ ~obs.raw.detected
    /\ fp.gestureBuffer = <<>>
    /\ Len(fp.positionHistory) = 2
    /\ fp.processedData.gesture = "none"
    /\ fp.processedData.confidence = 0
    /\ fp.processedData.normalizedX = AxisOne

(***************************************************************************)
(* C23: When two consecutive process() calls carry detections whose raw    *)
(* positions are less than the dead zone (0.02) apart, the second call     *)
(* reports the same normalized axes as the first, whatever the smoothing   *)
(* buffer holds.                                                           *)
(***************************************************************************)
C23_StepOk ==
    LET dx == obs'.raw.position.x - obs.raw.position.x
        dy == obs'.raw.position.y - obs.raw.position.y
    IN  ( /\ obs'.beat # obs.beat
          /\ obs.raw.detected /\ obs'.raw.detected
          /\ dx * dx + dy * dy < 60 * 60 ) =>
            /\ fp'.processedData.normalizedX = fp.processedData.normalizedX
            /\ fp'.processedData.normalizedY = fp.processedData.normalizedY

C23_DeadZoneHolds == [][C23_StepOk]_vars

\* C24: once handleCVFailure has disabled the gesture source it stays disabled for
\* the rest of the run (cvEnabled and cvInitialized stay false), and the step in
\* which the failure is handled leaves the whole engine (state, score, combo,
\* entities, player, shield) as it was.
C24_StepOk ==
    /\ loop.cvPipeline = "failed" =>
          /\ ~im'.cvEnabled
          /\ ~loop'.cvInitialized
          /\ loop'.cvPipeline = "failed"
    /\ (loop.cvPipeline # "failed" /\ loop'.cvPipeline = "failed") =>
          /\ gc' = gc
          /\ ~im'.cvEnabled

C24_FailureIsFinal == [][C24_StepOk]_vars

\* the pipeline failed and the game was then played on the fallback sources
C24_Witness ==
    /\ loop.cvPipeline = "failed"
    /\ ~im.cvEnabled
    /\ gc.state = PLAYING
    /\ gc.entityIdCounter >= 1
    /\ input.source # CV

\* the axis value scaled to the play area and cut to [-5, 5]
TargetOf(axis) ==
    IF axis * 5 > 5000 THEN 5000 ELSE IF axis * 5 < -5000 THEN -5000 ELSE axis * 5

\* coordinate p became p2 on the way to t in dt ms: at most 15 units/s, toward t,
\* and not past it
MovedToward(p, p2, t, dt) ==
    /\ Abs(p2 - p) <= 15 * dt
    /\ (p2 - p) * (t - p) >= 0
    /\ (t - p2) * (t - p) >= 0
    /\ Abs(t - p2) <= Abs(t - p)

\* C25: the player's x and z lie in [-5, 5] in every reachable state, whatever the
\* axes (also outside [-1, 1]) and whatever dt >= 0; in a simulation step each
\* coordinate moves toward its clamped target by at most 15 * dt and never past it.
\* The platform starts at (0, 0), so the range is stated on the state after a step.
C25_StepOk ==
    /\ gc'.player.x >= -5000 /\ gc'.player.x <= 5000
    /\ gc'.player.z >= -5000 /\ gc'.player.z <= 5000
    /\ SimStepDone(gc') =>
          /\ MovedToward(gc.player.x, gc'.player.x, TargetOf(input'.horizontal), loop'.deltaTime)
          /\ MovedToward(gc.player.z, gc'.player.z, TargetOf(input'.vertical), loop'.deltaTime)

C25_PlayerInBounds == [][C25_StepOk]_vars

\* axes of 1.5 and -2 have driven the platform into the corner (5, -5)
C25_Witness ==
    /\ SimStepDone(gc)
    /\ input.horizontal = 1500 /\ input.vertical = -2000
    /\ gc.player.x = 5000 /\ gc.player.z = -5000

\* a target 0.01 away is not approached, and a frame of 0 s moves nothing
C25_WitnessStill ==
    /\ SimStepDone(gc)
    /\ input.horizontal = 2
    /\ gc.player.x = 0 /\ gc.player.targetX = 10

\* C26: in every reachable state score >= 0, combo >= 1, and maxCombo is the
\* largest value combo has taken since the last start or restart (obs.peak, kept
\* from the combo notifications), hence maxCombo >= combo.
C26_ComboRecord ==
    /\ gc.score >= 0
    /\ gc.combo >= 1
    /\ gc.maxCombo = obs.peak
    /\ gc.maxCombo >= gc.combo

\* a catch took the combo to 2 and a missed orb broke it: the record stays at 2
C26_Witness ==
    /\ gc.state = PLAYING
    /\ gc.combo = 1
    /\ gc.maxCombo = 2
    /\ obs.peak = 2
    /\ gc.score = 100

\* C27: a step taken in PLAYING with pause in its input ends in PAUSED and leaves
\* player, shield, entities, spawn timers, score and difficulty as they were, also
\* when the input asks for restart too; a step taken in PLAYING with restart and
\* without pause resets the session and runs no part of the simulation.
C27_StepOk ==
    /\ (gc.state = PLAYING /\ input'.pause) =>
          /\ gc'.state = PAUSED
          /\ gc'.player = gc.player
          /\ gc'.entities = gc.entities
          /\ gc'.spawnConfig = gc.spawnConfig
          /\ gc'.score = gc.score
          /\ gc'.combo = gc.combo
          /\ gc'.difficulty = gc.difficulty
          /\ gc'.entityIdCounter = gc.entityIdCounter
    /\ (gc.state = PLAYING /\ input'.restart /\ ~input'.pause) =>
          /\ gc'.state = PLAYING
          /\ gc'.player = InitPlayer
          /\ gc'.entities = <<>>
          /\ gc'.spawnConfig = [orbTimer |-> 0, hazardTimer |-> 0]
          /\ gc'.score = 0 /\ gc'.combo = 1 /\ gc'.maxCombo = 1 /\ gc'.orbsCaught = 0
          /\ gc'.difficulty.level = 1
          /\ gc'.entityIdCounter = gc.entityIdCounter
          /\ ~HasEvent(gc', "playerMove")
          /\ ~HasEvent(gc', "spawn")
          /\ ~HasEvent(gc', "orbCatch")
          /\ ~HasEvent(gc', "hazardHit")

C27_PauseBeforeRestart == [][C27_StepOk]_vars

\* pause and restart arrived together in a running session with a score and
\* entities in flight: the session is paused and kept
C27_Witness ==
    /\ gc.state = PAUSED
    /\ input.pause /\ input.restart
    /\ gc.score >= 100
    /\ Len(gc.entities) >= 1
    /\ gc.spawnConfig.orbTimer > 0

\* restart alone arrived in a running session with entities in flight
C27_WitnessRestart ==
    /\ gc.state = PLAYING
    /\ input.restart /\ ~input.pause
    /\ HasEvent(gc, "remove")
    /\ \E i \in 1..Len(gc.events) :
          gc.events[i].kind = "stateChange" /\ gc.events[i].old = PLAYING

\* the orbCatch and hazardHit notifications of the step that led to g, in order
Resolutions(g) == SelectSeq(g.events, LAMBDA e : e.kind \in {"orbCatch", "hazardHit"})

\* the entities of g that are in the catch zone and overlap the player, in list order
InReach(g) == SelectSeq(g.entities, LAMBDA e : e.inCatchZone /\ Overlaps(g, e))

\* the orb catches among the first n resolutions
CatchesBefore(res, n) == Cardinality({j \in 1..n : res[j].kind = "orbCatch"})

\* C28: every in-catch-zone entity that overlaps the player in a simulation step
\* is resolved in that step, one resolution per entity and in the order of the
\* entity list (spawn order); an orb caught after k earlier catches of the same
\* step, with combo c at the start of the collision pass, awards 100 * (c + k).
C28_StepOk ==
    SimStepDone(gc') =>
        LET res == Resolutions(gc')
            reach == InReach(gc')
            c == IF OrbMissedBetween(gc, gc') THEN 1 ELSE gc.combo
        IN  /\ Len(res) = Len(reach)
            /\ \A k \in 1..Len(res) :
                  /\ res[k].id = reach[k].id
                  /\ reach[k].processed
                  /\ (res[k].kind = "orbCatch") = (reach[k].type = ORB)
                  /\ res[k].kind = "orbCatch" =>
                        res[k].a = 100 * (c + CatchesBefore(res, k - 1))
            /\ \A k \in 1..(Len(reach) - 1) : reach[k].id < reach[k + 1].id

C28_AllResolvedInOrder == [][C28_StepOk]_vars

\* an orb and a hazard reached the platform in the same step: the orb, spawned
\* first, was caught and then the hazard was resolved
C28_Witness ==
    /\ SimStepDone(gc)
    /\ Len(Resolutions(gc)) = 2
    /\ Resolutions(gc)[1].kind = "orbCatch"
    /\ Resolutions(gc)[2].kind = "hazardHit"
    /\ Resolutions(gc)[1].id < Resolutions(gc)[2].id

\* the shield stays up through an update of dt ms: the primary action is held,
\* energy e (1/10000) was positive and is still positive after draining 0.5 per second
StaysUp(held, e, dt) == held /\ e > 0 /\ e - 5 * dt > 0

\* energy e after recharging 0.2 per second for dt ms, capped at 1
Recharged(e, dt) == IF e + 2 * dt > 10000 THEN 10000 ELSE e + 2 * dt

\* C29 as stated: after every shield update the shield is active iff the primary
\* action was held, energy was > 0 before and is still > 0 after draining
\* 0.5 * dt; in every other case the shield is inactive and energy has recharged by
\* 0.2 * dt capped at 1; shield active implies energy > 0.
C29_StepAsStated ==
    SimStepDone(gc') =>
        LET up == StaysUp(input'.actionPrimary, gc.player.shieldEnergy, loop'.deltaTime)
        IN  /\ gc'.player.shieldActive = up
            /\ ~up => gc'.player.shieldEnergy =
                          Recharged(gc.player.shieldEnergy, loop'.deltaTime)
            /\ gc'.player.shieldActive => gc'.player.shieldEnergy > 0

C29_RechargeInEveryOtherCase == [][C29_StepAsStated]_vars

\* C29 amended: the shield is active iff the primary action was held, energy was
\* > 0 before and is still > 0 after draining 0.5 * dt, and energy then is the
\* drained value; an update with the action held that drains positive energy to
\* zero leaves the shield inactive with energy 0 and does not recharge; energy
\* recharges by 0.2 * dt capped at 1 only when the action is not held or energy
\* was already 0; shield active implies energy > 0.
C29_StepOk ==
    SimStepDone(gc') =>
        LET held == input'.actionPrimary
            e == gc.player.shieldEnergy
            dt == loop'.deltaTime
            up == StaysUp(held, e, dt)
        IN  /\ gc'.player.shieldActive = up
            /\ up => gc'.player.shieldEnergy = e - 5 * dt
            /\ (held /\ e > 0 /\ ~up) => gc'.player.shieldEnergy = 0
            /\ (~held \/ e <= 0) => gc'.player.shieldEnergy = Recharged(e, dt)
            /\ gc'.player.shieldActive => gc'.player.shieldEnergy > 0

C29_ShieldRule == [][C29_StepOk]_vars

\* the action was held through a stalled frame of 4 s: the shield was drained to
\* zero in that update and is off, with nothing recharged
C29_Witness ==
    /\ SimStepDone(gc)
    /\ input.actionPrimary
    /\ loop.deltaTime = 4000
    /\ gc.player.shieldEnergy = 0
    /\ ~gc.player.shieldActive

\* the entities of g2 that were not yet spawned in g, of the given type
NewEntities(g, g2, type) ==
    {e \in Range(g2.entities) : e.id > g.entityIdCounter /\ e.type = type}

\* a timer at t ms, grown by dt ms, has reached interval (ms) / multiplier (1/100)
Reached(t, dt, interval, multiplier) == (t + dt) * multiplier >= interval * 100

\* C30: in a simulation step each spawn timer grows by dt; an orb (a hazard) is
\* spawned exactly when its grown timer has reached 1.5 s (3 s) divided by the
\* spawn multiplier, and the timer is then 0; a step spawns at most one orb and one
\* hazard whatever dt is; a spawned entity is at height 15 with processed, missed
\* and inCatchZone false.
C30_StepOk ==
    SimStepDone(gc') =>
        LET dt == loop'.deltaTime
            m == gc.difficulty.spawnMultiplier
            orbs == NewEntities(gc, gc', ORB)
            hazards == NewEntities(gc, gc', HAZARD)
            orbNow == Reached(gc.spawnConfig.orbTimer, dt, 1500, m)
            hazardNow == Reached(gc.spawnConfig.hazardTimer, dt, 3000, m)
        IN  /\ Cardinality(orbs) = (IF orbNow THEN 1 ELSE 0)
            /\ Cardinality(hazards) = (IF hazardNow THEN 1 ELSE 0)
            /\ gc'.spawnConfig.orbTimer =
                    (IF orbNow THEN 0 ELSE gc.spawnConfig.orbTimer + dt)
            /\ gc'.spawnConfig.hazardTimer =
                    (IF hazardNow THEN 0 ELSE gc.spawnConfig.hazardTimer + dt)
            /\ Len(EventsOf(gc', "spawn")) = Cardinality(orbs) + Cardinality(hazards)
            /\ gc'.entityIdCounter = gc.entityIdCounter + Cardinality(orbs) + Cardinality(hazards)
            /\ \A e \in orbs \cup hazards :
                  /\ e.y = 1500000
                  /\ ~e.processed /\ ~e.missed /\ ~e.inCatchZone

C30_SpawnTimers == [][C30_StepOk]_vars

\* on the second level (spawn multiplier 1.1) an orb was spawned 1.4 s after the
\* one before it, which has fallen 1.4 s at 3.45 units/s since
C30_Witness ==
    /\ SimStepDone(gc)
    /\ gc.state = PLAYING
    /\ gc.difficulty.spawnMultiplier = 110
    /\ gc.spawnConfig.orbTimer = 0
    /\ \E i \in 1..Len(gc.entities), j \in 1..Len(gc.entities) :
          /\ gc.entities[i].type = ORB /\ gc.entities[j].type = ORB
          /\ gc.entities[i].y = 1500000 - 345 * 1400
          /\ gc.entities[j].y = 1500000
          /\ gc.entities[j].id = gc.entityIdCounter

\* a frame of 1.4 s on the first level left the orb timer at 1.4 s without a spawn
C30_WitnessNotYet ==
    /\ SimStepDone(gc)
    /\ gc.difficulty.spawnMultiplier = 100
    /\ gc.spawnConfig.orbTimer = 1400
    /\ ~HasEvent(gc, "spawn")

\* -1, 0 or +1 (in 1/1000) from the keys of the two directions of an axis
KeyAxis(keys, minus, plus) ==
    (IF keys \cap plus # {} THEN 1000 ELSE 0) - (IF keys \cap minus # {} THEN 1000 ELSE 0)

\* C31: with the gesture source disabled, poll() returns the keyboard axes (each
\* -1, 0 or +1, opposite keys cancelling) with source keyboard whenever a keyboard
\* axis is non-zero, and otherwise the mouse position mapped linearly onto [-1, 1]
\* with source mouse; the primary action is true iff Space or the primary mouse
\* button is held.
C31_StepOk ==
    (obs'.tick # obs.tick /\ ~im.cvEnabled) =>
        LET kx == KeyAxis(im.keys, {"ArrowLeft", "KeyA"}, {"ArrowRight", "KeyD"})
            ky == KeyAxis(im.keys, {"ArrowUp", "KeyW"}, {"ArrowDown", "KeyS"})
        IN  /\ (kx # 0 \/ ky # 0) =>
                  /\ input'.horizontal = kx
                  /\ input'.vertical = ky
                  /\ input'.source = "keyboard"
            /\ (kx = 0 /\ ky = 0) =>
                  /\ input'.horizontal = 2 * im.mouse.x - 1000
                  /\ input'.vertical = 2 * im.mouse.y - 1000
                  /\ input'.source = "mouse"
            /\ input'.actionPrimary = ("Space" \in im.keys \/ im.mouse.clicked)

C31_FallbackPriority == [][C31_StepOk]_vars

\* up and down are held together with the right key: the poll reports (1, 0) from
\* the keyboard although the pointer is elsewhere, with the mouse button as action
C31_Witness ==
    /\ {"ArrowUp", "ArrowDown", "KeyD"} \subseteq im.keys
    /\ "ArrowLeft" \notin im.keys /\ "Space" \notin im.keys
    /\ im.mouse.x = 750 /\ im.mouse.clicked
    /\ input.horizontal = 1000 /\ input.vertical = 0
    /\ input.source = "keyboard" /\ input.actionPrimary

\* left and right cancel and nothing else is held: the poll reports the pointer
C31_WitnessMouse ==
    /\ im.keys = {"ArrowLeft", "KeyD"}
    /\ im.mouse.x = 750 /\ im.mouse.y = 250
    /\ input.horizontal = 500 /\ input.vertical = -500
    /\ input.source = "mouse" /\ ~input.actionPrimary

\* C32: both normalized axes of every conditioned signal lie in [-1, 1], whatever
\* the raw positions were (also outside [0, 1]); a filtered position (the position
\* the dead zone let through, lastPosition) at or below 0.1 gives -1 and one at or
\* above 0.9 gives +1.
C32_AxesInRange ==
    LET out == fp.processedData
        filtered == fp.lastPosition
        edge(p, v) == /\ (p <= 300 => v = -2400)
                      /\ (p >= 2700 => v = 2400)
    IN  /\ out.normalizedX >= -2400 /\ out.normalizedX <= 2400
        /\ out.normalizedY >= -2400 /\ out.normalizedY <= 2400
        /\ edge(filtered.x, out.normalizedX)
        /\ edge(filtered.y, out.normalizedY)

\* the hand was reported left of and below the frame: the filtered position is
\* outside [0, 1] on both axes and the signal is (-1, +1)
C32_Witness ==
    /\ obs.raw.detected
    /\ obs.raw.position.x = -300
    /\ fp.lastPosition.x < 0 /\ fp.lastPosition.y > 3000
    /\ fp.processedData.normalizedX = -2400
    /\ fp.processedData.normalizedY = 2400

\* a filtered position strictly inside the sub-range gives a value strictly inside
C32_WitnessInside ==
    /\ obs.raw.detected
    /\ fp.lastPosition.x > 300 /\ fp.lastPosition.x < 2700
    /\ fp.lastPosition.x # 1500
    /\ fp.processedData.normalizedX > -2400 /\ fp.processedData.normalizedX < 2400
    /\ fp.processedData.normalizedX # 0

\* buffer q without its oldest entry
WithoutOldest(q) == IF Len(q) = 0 THEN q ELSE SubSeq(q, 2, Len(q))

\* C33: after any sequence of process() calls the position buffer holds at most 5
\* samples and the gesture buffer at most 3 tags; a call with a detection appends
\* the new sample and tag at the end and evicts from the front beyond the
\* capacity, a call without one drops the oldest entry of each buffer, so each
\* buffer holds the most recent surviving entries in arrival order.
C33_StepOk ==
    /\ Len(fp'.positionHistory) <= 5
    /\ Len(fp'.gestureBuffer) <= 3
    /\ (obs'.beat # obs.beat /\ obs'.raw.detected) =>
          /\ fp'.positionHistory = Buffered(fp.positionHistory, obs'.raw.position, 5)
          /\ fp'.gestureBuffer = Buffered(fp.gestureBuffer, obs'.raw.gesture, 3)
    /\ (obs'.beat # obs.beat /\ ~obs'.raw.detected) =>
          /\ fp'.positionHistory = WithoutOldest(fp.positionHistory)
          /\ fp'.gestureBuffer = WithoutOldest(fp.gestureBuffer)

C33_BuffersBounded == [][C33_StepOk]_vars

\* both buffers are full after the hand moved from the right edge to the left and
\* the tags went pinch, open, fist: the oldest entries come first
C33_Witness ==
    /\ Len(fp.positionHistory) = 5
    /\ fp.positionHistory[1].x = 2700 /\ fp.positionHistory[2].x = 2700
    /\ fp.positionHistory[3].x = 300 /\ fp.positionHistory[5].x = 300
    /\ fp.gestureBuffer = <<"pinch", "open", "fist">>
    /\ obs.raw.detected /\ obs.raw.gesture = "fist"

\* detections were lost after the buffers had filled: what is left are the newest
C33_WitnessDecay ==
    /\ ~obs.raw.detected
    /\ Len(fp.positionHistory) = 3
    /\ Len(fp.gestureBuffer) = 1
    /\ fp.positionHistory[1].x # fp.positionHistory[3].x

\* score, combo, maxCombo and orbs caught of g
SessionStats(g) ==
    [score |-> g.score, combo |-> g.combo, maxCombo |-> g.maxCombo,
     orbsCaught |-> g.orbsCaught]

\* the same four fields of a snapshot delivered with a state-transition notification
SnapshotStats(st) ==
    [score |-> st.score, combo |-> st.combo, maxCombo |-> st.maxCombo,
     orbsCaught |-> st.orbsCaught]

\* C34: the SessionStats snapshot delivered with the transition to GAME_OVER equals
\* the SessionStats that hold while the state stays GAME_OVER: score, combo,
\* maxCombo and orbs caught do not change after the hazard ended the session,
\* until a restart.
C34_StepOk ==
    gc'.state = GAME_OVER =>
        /\ \A k \in 1..Len(gc'.events) :
              (gc'.events[k].kind = "stateChange" /\ gc'.events[k].new = GAME_OVER) =>
                  SnapshotStats(gc'.events[k].stats) = SessionStats(gc')
        /\ gc.state = GAME_OVER => SessionStats(gc') = SessionStats(gc)

C34_GameOverSnapshotFinal == [][C34_StepOk]_vars

HazardsInZone(g) ==
    {e \in Range(g.entities) : e.type = HAZARD /\ e.inCatchZone /\ ~e.processed}

\* hazards are spawned at least 3 s / spawnMultiplier apart, which is more fall than
\* the catch zone is high: no two of them wait in the zone together
OneHazardInZone == Cardinality(HazardsInZone(gc)) <= 1

\* C36: whatever dt is, no orb is counted as missed in the simulation step in which
\* it first enters the catch zone: an orb that was above the zone before the step
\* is still in the live set after it, not marked missed, so that a collision test
\* has seen it at least once before a miss can break the combo.
C36_StepOk ==
    SimStepDone(gc') =>
        \A i \in 1..Len(gc.entities) :
            LET e == gc.entities[i]
            IN  (e.type = ORB /\ ~e.inCatchZone /\ ~e.processed) =>
                    /\ \E j \in 1..Len(gc'.entities) :
                          gc'.entities[j].id = e.id /\ ~gc'.entities[j].missed
                    /\ \A k \in 1..Len(gc'.events) :
                          ~(gc'.events[k].kind = "remove" /\ gc'.events[k].id = e.id)

C36_NoMissOnEntry == [][C36_StepOk]_vars

\* C37: every entity announced as spawned gets exactly one removal notification,
\* in the operation in which it leaves the live set (removal in a step, or
\* restart): a removal names an identifier that was announced and not yet
\* removed, no identifier is named twice, and the live set is at all times the
\* announced identifiers without the removed ones.
C37_StepOk ==
    LET removed == EventsOf(gc', "remove")
    IN  /\ \A k \in 1..Len(removed) : removed[k].id \in obs.live
        /\ \A k, l \in 1..Len(removed) : removed[k].id = removed[l].id => k = l
        /\ EntityIds(gc') = obs'.live
        /\ Cardinality(EntityIds(gc')) = Len(gc'.entities)

C37_RemovedOnce == [][C37_StepOk]_vars

\* a restart took two live entities away, each with its removal notification
C37_Witness ==
    /\ ResetDone(gc)
    /\ Len(EventsOf(gc, "remove")) = 2
    /\ gc.entities = <<>>
    /\ obs.live = {}
    /\ gc.entityIdCounter >= 2

\* a missed orb was removed by the step while a later entity stays live
C37_WitnessStep ==
    /\ SimStepDone(gc)
    /\ Len(EventsOf(gc, "remove")) = 1
    /\ obs.live # {}
    /\ \A id \in obs.live : id > EventsOf(gc, "remove")[1].id

\* the identifiers whose removal in the step that led to g came with a combo break:
\* the orbs counted as missed
MissedIds(g) ==
    {g.events[k].id : k \in {j \in 2..Len(g.events) :
                                 /\ g.events[j].kind = "remove"
                                 /\ g.events[j - 1].kind = "combo"
                                 /\ g.events[j - 1].a = 1}}

\* C38: an entity is resolved at most once: no orbCatch or hazardHit notification
\* names an identifier that an earlier step has resolved or that the same step
\* resolves twice, and an orb counted as missed has never been caught, although a
\* collided entity stays in the live set until the next simulation step.
C38_StepOk ==
    LET res == Resolutions(gc')
    IN  /\ \A k \in 1..Len(res) : res[k].id \notin obs.done
        /\ \A k, l \in 1..Len(res) : res[k].id = res[l].id => k = l
        /\ \A m \in MissedIds(gc') : m \notin obs.done /\ m \notin obs'.done
        /\ gc'.score > gc.score => \E k \in 1..Len(res) : res[k].kind = "orbCatch"

C38_ResolvedOnce == [][C38_StepOk]_vars

\* a caught orb is still in the live set of a paused game, and it is on the platform
C38_Witness ==
    /\ gc.state = PAUSED
    /\ \E i \in 1..Len(gc.entities) :
          /\ gc.entities[i].id \in obs.done
          /\ gc.entities[i].type = ORB
          /\ gc.entities[i].processed
          /\ Overlaps(gc, gc.entities[i])

\* the step after a catch: the caught orb, still over the platform, was removed
\* without a second catch and without a combo break
C38_WitnessNextStep ==
    /\ SimStepDone(gc)
    /\ gc.score = 100 /\ gc.combo = 2
    /\ obs.done = {}
    /\ HasEvent(gc, "remove")
    /\ MissedIds(gc) = {}
    /\ Resolutions(gc) = <<>>

\* C39: while the gesture source is enabled, a press of a pause key (P, Escape) or
\* of the restart key (R) is delivered as a true command by the next poll(): when
\* the latest poll was the first one after the press, its result carries the
\* command.
C39_KeysWorkInGestureMode ==
    \A c \in {"pause", "restart"} :
        (im.cvEnabled /\ input.source = CV /\ obs.press[c] = 2) => input[c]

\* C39 for the presses that are still held at the next poll: obs.hold[c] = 2 says
\* that the latest poll was the first one of a hold of c
C39_HeldKeysWorkInGestureMode ==
    \A c \in {"pause", "restart"} :
        (im.cvEnabled /\ input.source = CV /\ obs.hold[c] = 2) => input[c]


(***************************************************************************)
(* The CVEngine under any order of calls: the engine is initialised and    *)
(* disposed, processFrame is called with a usable or an unusable video     *)
(* element whether or not an earlier call has returned, and the detector   *)
(* delivers results and settles each send by resolving or by throwing.     *)
(***************************************************************************)
DetectorResults == {NoDetection} \cup Detections({"open", "fist"}, {Centre})

DetectorInit ==
    /\ ~cv.isInitialized
    /\ cv' = initCV(cv)
    /\ UNCHANGED <<gc, im, input, loop, fp, obs>>

FrameCall ==
    \E videoOk \in BOOLEAN :
        /\ cv' = processFrameCall(cv, videoOk)
        /\ obs' = [obs EXCEPT !.call = 1 - @,
                              !.video = videoOk,
                              !.busy = cv.isProcessing,
                              !.ret = IF processFrameSends(cv, videoOk) THEN @
                                      ELSE processFrameEarly(cv, videoOk)]
        /\ UNCHANGED <<gc, im, input, loop, fp>>

DetectorAnswers ==
    \E results \in DetectorResults :
        /\ cv.pending > 0
        /\ ~cv.answered
        /\ cv' = processResults(cv, results)
        /\ UNCHANGED <<gc, im, input, loop, fp, obs>>

SendSettles ==
    /\ cv.pending > 0
    /\ cv.answered
    /\ cv' = processFrameResume(cv)
    /\ obs' = [obs EXCEPT !.ret = cv.lastResults]
    /\ UNCHANGED <<gc, im, input, loop, fp>>

SendThrows ==
    /\ cv.pending > 0
    /\ cv' = processFrameResume(cv)
    /\ obs' = [obs EXCEPT !.ret = cv.lastResults, !.threw = TRUE]
    /\ UNCHANGED <<gc, im, input, loop, fp>>

DetectorDispose ==
    /\ cv.isInitialized
    /\ cv' = disposeCV(cv)
    /\ UNCHANGED <<gc, im, input, loop, fp, obs>>

NextDetector ==
    \/ DetectorInit
    \/ FrameCall
    \/ DetectorAnswers
    \/ SendSettles
    \/ SendThrows
    \/ DetectorDispose

SpecDetector == Init /\ [][NextDetector]_vars

(***************************************************************************)
(* C40: at most one frame is in flight to the hand detector at any time.   *)
(* In every step of the CVEngine: at most one hands.send() is pending      *)
(* afterwards, and isProcessing is set exactly while one is; a             *)
(* processFrame call with a usable video on the initialised engine that    *)
(* finds a send pending sends nothing and returns lastResults; a send      *)
(* that resolves or throws leaves isProcessing cleared; and such a call    *)
(* that finds no send pending does send, whatever happened to the sends    *)
(* before it.                                                              *)
(***************************************************************************)
C40_StepOk ==
    LET called == obs'.call # obs.call
        usable == obs'.video /\ cv.isInitialized
        settled == cv'.pending < cv.pending
    IN  /\ cv'.pending <= 1
        /\ cv'.isProcessing <=> cv'.pending = 1
        /\ called /\ usable /\ cv.pending > 0 =>
              /\ cv'.pending = cv.pending
              /\ obs'.ret = cv.lastResults
        /\ settled => ~cv'.isProcessing
        /\ called /\ usable /\ cv.pending = 0 => cv'.pending = 1

C40_OneFrameInFlight == [][C40_StepOk]_vars

\* a frame is in flight after an earlier send threw
C40_Witness == obs.threw /\ cv.pending = 1 /\ cv.isProcessing

\* a call that found a send pending returned the results of an earlier frame
C40_WitnessBusy ==
    /\ obs.busy
    /\ obs.video
    /\ cv.isInitialized
    /\ cv.pending = 1
    /\ obs.ret = cv.lastResults
    /\ obs.ret.detected

====
